---- MODULE Spec2Model ----
(***************************************************************************)
(* Reminder delivery pipeline of SiteClientesIPTV: the MessageQueue of     *)
(* message_queue.py (validation, pending queue, retry-holding area, the    *)
(* background worker with its pacing and backoff, cancellation) and the    *)
(* reminder scheduler of reminder_scheduler.py (planning, batch            *)
(* staggering, setup_reminders).                                           *)
(*                                                                         *)
(* Clocks.  The code compares wall-clock instants only through differences *)
(* with "now" (scheduled_time <= now, current_time - last_sent_time < 60). *)
(* The model therefore stores every instant relative to the present, in    *)
(* seconds: scheduled_time is the time still to go (0 once reached),       *)
(* time_since_last the time elapsed since a worker's last_sent_time        *)
(* (saturating at delay_between_messages, which is also the value of a     *)
(* fresh worker whose last_sent_time is 0, the epoch).  Tick lets time     *)
(* pass.                                                                   *)
(***************************************************************************)
EXTENDS Integers, Sequences, FiniteSets, TLC

(***************************************************************************)
(* Bounds of the model                                                     *)
(***************************************************************************)
\* messages accepted by add_message in one run of Spec
MaxMsgs == 2
\* messages accepted in one run of SpecRetry, SpecCancel, SpecLive, SpecFull
RetryRunMsgs == 1
CancelRunMsgs == 3
LiveRunMsgs == 1
FullRunMsgs == 1
\* messages the worker may take from the full queue in a run of SpecFull
FullSlack == 1
\* worker threads alive at the same time
MaxWorkers == 2
\* threads of the application calling into the queue at the same time
MaxCallers == 2

\* seconds by which one Tick advances the clock
TimeSteps == {60}

(***************************************************************************)
(* Program constants                                                       *)
(***************************************************************************)
delay_between_messages == 60
max_queue_size == 1000
MaxMessageLength == 4096
MinPhoneDigits == 10
MaxPhoneDigits == 15
RetryBaseSeconds == 60
RetryCapSeconds == 300
HistoryCap == 1000
DefaultMaxRetries == 3
DefaultRecentLimit == 50

Min(a, b) == IF a <= b THEN a ELSE b
Max(a, b) == IF a >= b THEN a ELSE b

Callers == 1..MaxCallers
\* the runs without concurrent callers use one calling thread
OneCaller == {1}
WorkerSlots == 1..MaxWorkers

\* MessageStatus
PENDING == "pending"
SENT == "sent"
FAILED == "failed"
RETRYING == "retrying"
CANCELLED == "cancelled"
MessageStatus == {PENDING, SENT, FAILED, RETRYING, CANCELLED}
Terminal == {SENT, FAILED, CANCELLED}

ClientIds == {"c1", "c2"}
\* max_retries of the messages handed to add_message: the dataclass default in
\* the runs about the retry path, smaller ones elsewhere
RetryLimits == {1}
\* the client whose messages are cancelled (the clients are interchangeable)
CancelTargets == {"c1"}

VARIABLES
    msgs,               \* the QueuedMessage objects accepted so far, by id
    queue,              \* self.queue: ids, head first
    retry_queue,        \* self.retry_queue
    messages_history,   \* self.messages_history: references to the objects
    failed_messages,    \* self.failed_messages
    processing,         \* self.processing
    workers,            \* the threads running _process_messages
    callers,            \* the threads calling the public operations
    ret,                \* what the call completing in this step returns
    since_delivery,     \* seconds since the latest successful delivery (saturating)
    budget              \* messages the run may still accept (model bound)

\* the variables of the message queue
qvars == <<msgs, queue, retry_queue, messages_history, failed_messages,
           processing, workers, callers, ret, since_delivery, budget>>

VARIABLES
    jobs,               \* the job store of the APScheduler instance of app.py
    clients,            \* what storage.get_clients() returns
    today,              \* datetime.now().date()
    last_run,           \* how many runs of setup_reminders in a row just ended
    edits,              \* how many times the stored clients have changed
    refused,            \* the registrations on which scheduler.add_job raises
    paused              \* the clients pause_reminders_for_client has been
                        \* called for so far (history variable)

\* the variables of the reminder scheduler
svars == <<jobs, clients, today, last_run, edits, refused, paused>>

VARIABLES
    limiter,            \* rate_limiter, the SimpleRateLimiter of rate_limiter.py
    cache,              \* app_cache, the SimpleCache of simple_cache.py
    clock               \* time.time(), in seconds since the process started

uvars == <<limiter, cache, clock>>

vars == <<msgs, queue, retry_queue, messages_history, failed_messages,
          processing, workers, callers, ret, since_delivery, budget,
          jobs, clients, today, last_run, edits, refused, paused, limiter,
          cache, clock>>

\* a calendar date, and the day the runs begin
Date(year, month, day) == [year |-> year, month |-> month, day |-> day]
FirstDay == Date(2024, 12, 30)

(***************************************************************************)
(* Recipients and bodies.  A recipient is a sequence of characters; a body *)
(* is run-length encoded, a sequence of runs [ch, n] of n equal            *)
(* characters, so that a body of 4097 characters stays small.              *)
(***************************************************************************)
DigitChars == {"0", "1", "2", "3", "4", "5", "6", "7", "8", "9"}
Rep(c, n) == [i \in 1..n |-> c]
Run(c, n) == [ch |-> c, n |-> n]

Phones ==
    { <<>>,
      Rep("7", 9), Rep("7", 10), Rep("7", 15), Rep("7", 16),
      <<"+", "-">>,
      <<"(">> \o Rep("5", 9) \o <<")">>,
      <<"+">> \o Rep("5", 2) \o <<" ">> \o Rep("1", 8) \o <<"-">> \o Rep("9", 3) }

Bodies ==
    { <<>>,
      <<Run(" ", 3)>>,
      <<Run(" ", 4097)>>,
      <<Run("a", 1)>>,
      <<Run(" ", 1), Run("a", 4094), Run(" ", 1)>>,
      <<Run("a", 4096)>>,
      <<Run("a", 4097)>>,
      <<Run(" ", 4000), Run("a", 97)>> }

\* the recipients and bodies of the runs that are not about validation: one
\* accepted, one rejected
SomePhones == {Rep("7", 10), Rep("7", 9)}
SomeBodies == {<<Run("a", 1)>>}

RECURSIVE BodyLen(_)
BodyLen(body) ==
    IF body = <<>> THEN 0 ELSE Head(body).n + BodyLen(Tail(body))

IsSpaceRun(r) == r.ch = " " \/ r.n = 0

RECURSIVE LStrip(_)
LStrip(body) ==
    IF body = <<>> THEN <<>>
    ELSE IF IsSpaceRun(Head(body)) THEN LStrip(Tail(body)) ELSE body

RECURSIVE RStrip(_)
RStrip(body) ==
    IF body = <<>> THEN <<>>
    ELSE IF IsSpaceRun(body[Len(body)])
         THEN RStrip(SubSeq(body, 1, Len(body) - 1))
         ELSE body

\* str.strip()
Strip(body) == RStrip(LStrip(body))

\* ''.join(filter(str.isdigit, phone))
DigitsOnly(phone) == SelectSeq(phone, LAMBDA c : c \in DigitChars)

ValidatePhone9(phone) ==
    LET digits_only == DigitsOnly(phone)
    IN  ~(Len(digits_only) < MinPhoneDigits - 1 \/ Len(digits_only) > MaxPhoneDigits)

\* MessageQueue._validate_phone
ValidatePhone(phone) ==
    LET digits_only == DigitsOnly(phone)
    IN  ~(Len(digits_only) < MinPhoneDigits \/ Len(digits_only) > MaxPhoneDigits)

\* MessageQueue._validate_message: the error_message it leaves on the message,
\* "" when it returns True
ErrorMessage(phone, body, client_id) ==
    IF phone = <<>> \/ BodyLen(body) = 0 \/ client_id = ""
    THEN "Missing required fields (phone, message, client_id)"
    ELSE IF ~ValidatePhone(phone) THEN "Invalid phone number"
    ELSE IF BodyLen(body) > MaxMessageLength
    THEN "Message too long (max 4096 characters)"
    ELSE IF BodyLen(Strip(body)) = 0 THEN "Message is empty"
    ELSE ""

ValidateMessage(phone, body, client_id) == ErrorMessage(phone, body, client_id) = ""

QueueFullStrict(q) == Len(q) > max_queue_size

\* add_message: self.queue.qsize() >= self.max_queue_size
QueueFull(q) == Len(q) >= max_queue_size

(***************************************************************************)
(* Messages, workers, callers                                              *)
(***************************************************************************)
\* QueuedMessage as queue_reminder_message builds it.  The recipient and the
\* body are not kept: once validated they are only handed to the channel.
\* History variables: path, the statuses the object has been given, in order;
\* failures, the delivery attempts that failed; kept, whether the message sat
\* in the retry-holding area when a cancellation of its client returned
\* message_type, priority and scheduled_at (the reading of datetime.now()
\* that queue_reminder_message stores as scheduled_time) are those of a
\* message written by hand unless send_reminder builds the message; probes
\* and sends count the calls of is_whatsapp_connected and of
\* send_whatsapp_message made for the message, and since_attempt is the time
\* since its last failed attempt, counted up to the delay of that retry
NewMessage(client_id, max_retries) ==
    [client_id |-> client_id, status |-> PENDING, retry_count |-> 0,
     max_retries |-> max_retries, scheduled_time |-> 0, path |-> <<PENDING>>,
     failures |-> 0, kept |-> FALSE, message_type |-> "manual",
     priority |-> "NORMAL", scheduled_at |-> 0, error_message |-> "",
     probes |-> 0, sends |-> 0, since_attempt |-> 0]

SetStatus(m, s) == [m EXCEPT !.status = s, !.path = Append(@, s)]

DeadWorker ==
    [pc |-> "dead", message |-> 0, time_since_last |-> 0, wait_time |-> 0,
     history_slice |-> <<>>]
\* a thread entering _process_messages: last_sent_time = 0
FreshWorker ==
    [pc |-> "loop", message |-> 0, time_since_last |-> delay_between_messages,
     wait_time |-> 0, history_slice |-> <<>>]

\* no call returns in this step
NoRet == [op |-> "none", ok |-> FALSE, count |-> 0, error |-> "", input |-> <<>>]
\* add_message(input) returns True
AddTrue(input) ==
    [op |-> "add", ok |-> TRUE, count |-> 0, error |-> "", input |-> input]
\* add_message(input) returns False; error is the message's error_message
AddFalse(error, input) ==
    [op |-> "add", ok |-> FALSE, count |-> 0, error |-> error, input |-> input]
\* cancel_messages_for_client returns n
CancelRet(n) ==
    [op |-> "cancel", ok |-> TRUE, count |-> n, error |-> "", input |-> <<>>]

IdleCaller ==
    [pc |-> "idle", op |-> "none", client_id |-> "", new_queue |-> <<>>,
     cancelled_count |-> 0, input |-> <<>>, q0 |-> <<>>, h0 |-> <<>>,
     alone |-> TRUE]

Live == {w \in WorkerSlots : workers[w].pc # "dead"}
Starting == {t \in Callers : callers[t].pc = "spawn"}
\* a worker slot is left for one more thread to be started
SlotLeft == Cardinality(Live) + Cardinality(Starting) < MaxWorkers
FreeSlot == CHOOSE w \in WorkerSlots :
                /\ workers[w].pc = "dead"
                /\ \A v \in WorkerSlots : workers[v].pc = "dead" => w <= v

\* the calls of the other threads that are inside cancel_messages_for_client
\* are no longer alone with the queue (history variable)
Disturb(cs, t) ==
    [u \in Callers |->
        IF u # t /\ cs[u].pc \in {"drain", "swap"}
        THEN [cs[u] EXCEPT !.alone = FALSE] ELSE cs[u]]

(***************************************************************************)
(* SimpleRateLimiter                                                       *)
(***************************************************************************)
\* self.window and self.default_limit
window == 60
default_limit == 60

\* the client keys (get_client_ip) and the limits the routes pass in the runs
RateKeys == {"ip1", "ip2"}
RateLimits == {1, 2, 3}

\* the largest reading of time.time() of a run, and how far it moves at once
MaxClock == 123
ClockSteps == {29, 30, 31}
\* how long before it takes the lock a call may have read time.time()
LockWaits == {0, 1}

\* SimpleRateLimiter.__init__; limit is what the callers of the run pass
RateLimiterOf(limit) == [clients |-> <<>>, limit |-> limit]

\* is_allowed(client_ip, limit) returns ok; current_time is its reading
AllowedRet(ok, client_ip, current_time) ==
    [op |-> "is_allowed", ok |-> ok, count |-> 0, error |-> "",
     input |-> <<client_ip, current_time>>]

\* `count <= limit`
UnderLimitInclusive(count, limit) == count <= limit

\* `count < limit`
UnderLimit(count, limit) == count < limit

\* `current_time >= reset_time`
WindowOver(current_time, reset_time) == current_time >= reset_time

\* the entry of a key whose window starts with this call; calls counts the
\* calls handled in the window and after_denial tells that the window
\* before it refused a call
FirstInWindow(current_time, after_denial) ==
    [count |-> 1, reset_time |-> current_time + window, calls |-> 1,
     after_denial |-> after_denial]

\* is_allowed(client_ip, limit): the time is read, then the lock is taken
IsAllowed(client_ip, wait) ==
    LET current_time == clock - wait
        limit == limiter.limit
        known == limiter.clients
    IN  /\ current_time >= 0
        /\ IF client_ip \notin DOMAIN known
           THEN /\ limiter' = [limiter EXCEPT !.clients =
                        (client_ip :> FirstInWindow(current_time, FALSE)) @@ known]
                /\ ret' = AllowedRet(TRUE, client_ip, current_time)
           ELSE IF WindowOver(current_time, known[client_ip].reset_time)
           THEN /\ limiter' = [limiter EXCEPT !.clients[client_ip] =
                        FirstInWindow(current_time, known[client_ip].calls > limit)]
                /\ ret' = AllowedRet(TRUE, client_ip, current_time)
           ELSE IF UnderLimit(known[client_ip].count, limit)
           THEN /\ limiter' = [limiter EXCEPT
                        !.clients[client_ip].count = @ + 1,
                        !.clients[client_ip].calls = @ + 1]
                /\ ret' = AllowedRet(TRUE, client_ip, current_time)
           ELSE /\ limiter' = [limiter EXCEPT !.clients[client_ip].calls =
                        Min(@ + 1, limit + 1)]
                /\ ret' = AllowedRet(FALSE, client_ip, current_time)
        /\ UNCHANGED <<cache, clock>>
        /\ UNCHANGED <<msgs, queue, retry_queue, messages_history,
                       failed_messages, processing, workers, callers,
                       since_delivery, budget, svars>>

\* SimpleRateLimiter.cleanup_expired()
RateCleanupExpired ==
    LET known == limiter.clients
        live == {ip \in DOMAIN known : ~WindowOver(clock, known[ip].reset_time)}
    IN  /\ limiter' = [limiter EXCEPT !.clients = [ip \in live |-> known[ip]]]
        /\ ret' = NoRet
        /\ UNCHANGED <<cache, clock>>
        /\ UNCHANGED <<msgs, queue, retry_queue, messages_history,
                       failed_messages, processing, workers, callers,
                       since_delivery, budget, svars>>

\* time.time() moves on
ClockAdvances(step) ==
    /\ clock + step <= MaxClock
    /\ clock' = clock + step
    /\ ret' = NoRet
    /\ UNCHANGED <<limiter, cache>>
    /\ UNCHANGED <<msgs, queue, retry_queue, messages_history,
                   failed_messages, processing, workers, callers,
                   since_delivery, budget, svars>>

(***************************************************************************)
(* SimpleCache                                                             *)
(***************************************************************************)
\* app_cache = SimpleCache(default_ttl=300, max_size=1000)
default_ttl == 300
max_size == 1000

\* the lookups and the stores of a run
MaxLookups == 2
MaxSets == 2
\* the latest reading of time.time() in the runs of the cache
CacheHorizon == 31

\* keys are numbered texts: <<"text", n>> is shorter than 100 characters,
\* <<"long", n>> is not, and <<"md5", n>> is the hex digest of <<"long", n>>
CacheKeys == {<<"text", max_size + 1>>, <<"text", max_size + 2>>, <<"long", 1>>}
CacheValues == {"v1", "v2"}
CacheTtls == {30, 60}
None == "None"

\* SimpleCache.__init__: self.cache and self.access_count are one sequence
\* in insertion order, an entry holding (value, expires_at) and its access
\* count; latest, lost and sets are history: the latest set of every key,
\* the keys _evict_lru removed since, and the number of calls of set
CacheEmpty ==
    [entries |-> <<>>, hits |-> 0, misses |-> 0, evictions |-> 0,
     latest |-> <<>>, lost |-> {}, sets |-> 0]

\* _generate_key(key)
GenerateKey(key) == IF key[1] = "long" THEN <<"md5", key[2]>> ELSE key

\* `time.time() > expires_at`
IsExpiredLate(current_time, expires_at) == current_time > expires_at

\* _is_expired(expires_at), and the comparison of _evict_expired
IsExpiredAt(current_time, expires_at) == current_time >= expires_at

\* _evict_expired() on the entries
EvictExpired(entries, current_time) ==
    SelectSeq(entries, LAMBDA e : ~IsExpiredAt(current_time, e.expires_at))

\* sorted(self.access_count.items(), key=lambda x: x[1]): a stable sort
RECURSIVE SortedByAccess(_, _)
SortedByAccess(entries, counts) ==
    IF counts = {} THEN <<>>
    ELSE LET least == CHOOSE c \in counts : \A d \in counts : c <= d
         IN  SelectSeq(entries, LAMBDA e : e.access_count = least)
                 \o SortedByAccess(entries, counts \ {least})

\* the keys _evict_lru() removes
LruVictims(entries) ==
    IF Len(entries) <= max_size THEN {}
    ELSE LET sorted_keys == SortedByAccess(entries,
                                {entries[i].access_count : i \in DOMAIN entries})
             evict_count == Len(entries) - max_size + 1
         IN  {sorted_keys[i].key : i \in 1..Min(evict_count, Len(sorted_keys))}

\* the entry of cache_key, 0 when the key is not in self.cache
EntryAt(entries, cache_key) ==
    IF \E i \in DOMAIN entries : entries[i].key = cache_key
    THEN CHOOSE i \in DOMAIN entries : entries[i].key = cache_key
    ELSE 0

\* the entries after `del self.cache[key]` for the keys given
WithoutKeys(entries, keys) ==
    IF keys = {} THEN entries
    ELSE SelectSeq(entries, LAMBDA e : e.key \notin keys)

\* the entries after `self.cache[cache_key] = (value, expires_at)` and
\* `self.access_count[cache_key] = 1`: a key that is there keeps its place
Stored(entries, entry) ==
    LET at == EntryAt(entries, entry.key)
    IN  IF at = 0 THEN Append(entries, entry)
        ELSE [entries EXCEPT ![at] = entry]

\* get(key) returns value; ok tells a hit
GetRet(ok, value, key) ==
    [op |-> "get", ok |-> ok, count |-> 0, error |-> "", input |-> <<key>>,
     value |-> value]

\* set(key, value, ttl) returns True
SetRet(key) ==
    [op |-> "set", ok |-> TRUE, count |-> 0, error |-> "", input |-> <<key>>,
     value |-> None]

\* get(key)
CacheGet(key) ==
    LET cache_key == GenerateKey(key)
        at == EntryAt(cache.entries, cache_key)
    IN  /\ cache.hits + cache.misses < MaxLookups
        /\ IF at # 0 /\ ~IsExpiredAt(clock, cache.entries[at].expires_at)
           THEN /\ cache' = [cache EXCEPT !.hits = @ + 1,
                                          !.entries[at].access_count = @ + 1]
                /\ ret' = GetRet(TRUE, cache.entries[at].value, key)
           ELSE /\ cache' = [cache EXCEPT !.misses = @ + 1,
                        !.entries = IF at = 0 THEN @ ELSE WithoutKeys(@, {cache_key})]
                /\ ret' = GetRet(FALSE, None, key)
        /\ UNCHANGED <<limiter, clock>>
        /\ UNCHANGED <<msgs, queue, retry_queue, messages_history,
                       failed_messages, processing, workers, callers,
                       since_delivery, budget, svars>>

\* `ttl or self.default_ttl`
EffectiveTtl(ttl) == IF ttl = 0 THEN default_ttl ELSE ttl

\* set(key, value, ttl); the call counts as made at its reading of
\* time.time(), which is taken just before the lock
CacheSet(key, value, ttl) ==
    LET cache_key == GenerateKey(key)
        expires_at == clock + EffectiveTtl(ttl)
        unexpired == EvictExpired(cache.entries, clock)
        victims == IF Len(unexpired) >= max_size THEN LruVictims(unexpired) ELSE {}
        kept == WithoutKeys(unexpired, victims)
        entry == [key |-> cache_key, value |-> value, expires_at |-> expires_at,
                  access_count |-> 1]
    IN  /\ cache.sets < MaxSets
        /\ cache' = [cache EXCEPT
                !.entries = Stored(kept, entry),
                !.evictions = @ + Cardinality(victims),
                !.latest = (key :> [value |-> value, ttl |-> ttl,
                                    at |-> clock]) @@ @,
                !.lost = (@ \cup victims) \ {cache_key},
                !.sets = @ + 1]
        /\ ret' = SetRet(key)
        /\ UNCHANGED <<limiter, clock>>
        /\ UNCHANGED <<msgs, queue, retry_queue, messages_history,
                       failed_messages, processing, workers, callers,
                       since_delivery, budget, svars>>

\* cleanup_expired()
CacheCleanupExpired ==
    /\ cache' = [cache EXCEPT !.entries = EvictExpired(@, clock)]
    /\ ret' = NoRet
    /\ UNCHANGED <<limiter, clock>>
    /\ UNCHANGED <<msgs, queue, retry_queue, messages_history,
                   failed_messages, processing, workers, callers,
                   since_delivery, budget, svars>>

\* no request has reached the rate limiter or the cache
UtilitiesIdle ==
    /\ limiter = RateLimiterOf(default_limit)
    /\ cache = CacheEmpty
    /\ clock = 0

\* the scheduler as app.py creates it, before any client is stored
SchedulerIdle ==
    /\ jobs = <<>>
    /\ clients = <<>>
    /\ today = FirstDay
    /\ last_run = 0
    /\ edits = 0
    /\ refused = {}
    /\ paused = {}
    /\ UtilitiesIdle

\* the queue after MessageQueue.__init__; the run may accept b messages
QueueInit(b) ==
    /\ msgs = <<>>
    /\ queue = <<>>
    /\ retry_queue = <<>>
    /\ messages_history = <<>>
    /\ failed_messages = <<>>
    /\ processing = FALSE
    /\ workers = [w \in WorkerSlots |-> DeadWorker]
    /\ callers = [t \in Callers |-> IdleCaller]
    /\ ret = NoRet
    /\ since_delivery = delay_between_messages
    /\ budget = b

\* the application after start-up
QInit(b) ==
    /\ QueueInit(b)
    /\ SchedulerIdle

(***************************************************************************)
(* add_message, start_processing, stop_processing                          *)
(***************************************************************************)
\* add_message(message) as it acts on the queue; client_id is the atom that
\* stands for message.client_id
AddMessageOf(t, phone, body, client_id, message) ==
    /\ callers[t].pc = "idle"
    /\ IF ~ValidateMessage(phone, body, client_id) \/ QueueFull(queue)
       THEN /\ ret' = AddFalse(ErrorMessage(phone, body, client_id),
                            <<phone, body, client_id>>)
            /\ UNCHANGED <<msgs, queue, retry_queue, messages_history,
                           failed_messages, processing, workers, callers,
                           since_delivery, budget>>
       ELSE /\ budget > 0
            /\ processing \/ SlotLeft
            /\ msgs' = Append(msgs, message)
            /\ queue' = Append(queue, Len(msgs) + 1)
            /\ budget' = budget - 1
            /\ IF processing
               THEN /\ callers' = Disturb(callers, t)
                    /\ ret' = AddTrue(<<phone, body, client_id>>)
               ELSE /\ callers' = [Disturb(callers, t) EXCEPT
                                      ![t] = [IdleCaller EXCEPT
                                                 !.pc = "spawn", !.op = "add",
                                                 !.input = <<phone, body, client_id>>]]
                    /\ ret' = NoRet
            /\ UNCHANGED <<retry_queue, messages_history, failed_messages,
                           processing, workers, since_delivery>>

\* add_message on a message with the fields a caller fills in by hand
AddMessageCall(t, phone, body, client_id, max_retries) ==
    AddMessageOf(t, phone, body, client_id, NewMessage(client_id, max_retries))

\* add_message called by a thread of the application
AddMessage(t, phone, body, client_id, max_retries) ==
    /\ AddMessageCall(t, phone, body, client_id, max_retries)
    /\ UNCHANGED <<svars, uvars>>

\* start_processing up to its test of self.processing
StartProcessing(t) ==
    /\ callers[t].pc = "idle"
    /\ IF processing
       THEN UNCHANGED callers
       ELSE /\ SlotLeft
            /\ callers' = [callers EXCEPT
                              ![t] = [IdleCaller EXCEPT !.pc = "spawn",
                                                        !.op = "start"]]
    /\ ret' = NoRet
    /\ UNCHANGED <<msgs, queue, retry_queue, messages_history, failed_messages,
                   processing, workers, since_delivery, budget>>
    /\ UNCHANGED <<svars, uvars>>

\* start_processing after its test: self.processing = True, the thread starts
SpawnWorker(t) ==
    /\ callers[t].pc = "spawn"
    /\ processing' = TRUE
    /\ workers' = [workers EXCEPT ![FreeSlot] = FreshWorker]
    /\ ret' = IF callers[t].op = "add" THEN AddTrue(callers[t].input) ELSE NoRet
    /\ callers' = [callers EXCEPT ![t] = IdleCaller]
    /\ UNCHANGED <<msgs, queue, retry_queue, messages_history, failed_messages,
                   since_delivery, budget>>
    /\ UNCHANGED <<svars, uvars>>

\* stop_processing up to the join: self.processing = False
StopProcessing(t) ==
    /\ callers[t].pc = "idle"
    /\ processing' = FALSE
    /\ callers' = [callers EXCEPT
                      ![t] = [IdleCaller EXCEPT !.pc = "join", !.op = "stop"]]
    /\ ret' = NoRet
    /\ UNCHANGED <<msgs, queue, retry_queue, messages_history, failed_messages,
                   workers, since_delivery, budget>>
    /\ UNCHANGED <<svars, uvars>>

\* a worker that reaches the loop's test, or gives up its get(timeout=1),
\* within the 5 s of the join
QuickWorker(w) == workers[w].pc \in {"loop", "get"}

\* worker_thread.join(timeout=5) returns: the thread has ended, or it is
\* asleep for the pacing or busy sending and the join has given up
JoinReturn(t) ==
    /\ callers[t].pc = "join"
    /\ \A w \in WorkerSlots : ~QuickWorker(w)
    /\ callers' = [callers EXCEPT ![t] = IdleCaller]
    /\ ret' = NoRet
    /\ UNCHANGED <<msgs, queue, retry_queue, messages_history, failed_messages,
                   processing, workers, since_delivery, budget>>
    /\ UNCHANGED <<svars, uvars>>

(***************************************************************************)
(* The worker: _process_messages, _process_retry_queue, _send_message      *)
(***************************************************************************)
IsReadyAlways(id) == TRUE
\* `message.scheduled_time <= now`
IsReady(id) == msgs[id].scheduled_time <= 0

CanRetryInclusive(m) == m.retry_count <= m.max_retries
CanRetryAlways(m) == TRUE
\* the failure branch's test: message.retry_count < message.max_retries
CanRetry(m) == m.retry_count < m.max_retries

RECURSIVE Pow2(_)
Pow2(n) == IF n = 0 THEN 1 ELSE 2 * Pow2(n - 1)

RetryDelayFromZero(retry_count) ==
    Min(RetryCapSeconds, RetryBaseSeconds * Pow2(retry_count - 1))

\* retry_delay = min(300, 60 * (2 ** message.retry_count)), retry_count being
\* the count already incremented
RetryDelay(retry_count) == Min(RetryCapSeconds, RetryBaseSeconds * Pow2(retry_count))

\* the cleanup of the history: keep the last 1000
TrimHistory(h) ==
    IF Len(h) > HistoryCap THEN SubSeq(h, Len(h) - HistoryCap + 1, Len(h)) ELSE h

\* top of the loop: `while self.processing`, then _process_retry_queue
WLoop(w) ==
    /\ workers[w].pc = "loop"
    /\ IF ~processing
       THEN /\ workers' = [workers EXCEPT ![w] = DeadWorker]
            /\ UNCHANGED <<queue, retry_queue, callers>>
       ELSE LET retry_messages == retry_queue
                ready == SelectSeq(retry_messages, IsReady)
                parked == SelectSeq(retry_messages, LAMBDA id : ~IsReady(id))
            IN  /\ queue' = queue \o ready
                /\ retry_queue' = parked
                /\ workers' = [workers EXCEPT ![w].pc = "get"]
                /\ callers' = IF ready = <<>> THEN callers ELSE Disturb(callers, 0)
    /\ ret' = NoRet
    /\ UNCHANGED <<msgs, messages_history, failed_messages, processing,
                   since_delivery, budget>>
    /\ UNCHANGED <<svars, uvars>>

WGetPeeking(w) ==
    /\ workers[w].pc = "get"
    /\ IF queue = <<>>
       THEN workers' = [workers EXCEPT ![w].pc = "loop"]
       ELSE workers' = [workers EXCEPT ![w].message = Head(queue), ![w].pc = "send"]
    /\ ret' = NoRet
    /\ UNCHANGED <<msgs, queue, callers, retry_queue, messages_history,
                   failed_messages, processing, since_delivery, budget>>
    /\ UNCHANGED <<svars, uvars>>

\* self.queue.get(timeout=1), then the pacing test
WGet(w) ==
    /\ workers[w].pc = "get"
    /\ IF queue = <<>>
       THEN /\ workers' = [workers EXCEPT ![w].pc = "loop"]
            /\ UNCHANGED <<queue, callers>>
       ELSE LET time_since_last == workers[w].time_since_last
            IN  /\ queue' = Tail(queue)
                /\ callers' = Disturb(callers, 0)
                /\ workers' =
                     [workers EXCEPT
                        ![w].message = Head(queue),
                        ![w].pc = IF time_since_last < delay_between_messages
                                  THEN "sleep" ELSE "send",
                        ![w].wait_time =
                            IF time_since_last < delay_between_messages
                            THEN delay_between_messages - time_since_last ELSE 0]
    /\ ret' = NoRet
    /\ UNCHANGED <<msgs, retry_queue, messages_history, failed_messages,
                   processing, since_delivery, budget>>
    /\ UNCHANGED <<svars, uvars>>

\* the message after a delivery attempt that answered `success`
Processed(m, success) ==
    IF success THEN SetStatus(m, SENT)
    ELSE IF CanRetry(m)
         THEN [SetStatus(m, RETRYING) EXCEPT
                  !.retry_count = m.retry_count + 1,
                  !.scheduled_time = RetryDelay(m.retry_count + 1),
                  !.failures = @ + 1, !.since_attempt = 0]
         ELSE [SetStatus(m, FAILED) EXCEPT !.failures = @ + 1]

\* what send_whatsapp_message can do: answer True, answer False, or raise
SendOutcomes == {"sent", "refused", "raised"}

\* the value of _send_message without the test of is_whatsapp_connected
DeliveredUnprobed(connected, outcome) == outcome = "sent"

\* the value of _send_message: False when is_whatsapp_connected() is false,
\* else what send_whatsapp_message answers, False when it raises
Delivered(connected, outcome) == connected /\ outcome = "sent"

\* message.error_message after _send_message
ErrorAfter(connected, outcome, error_message) ==
    IF ~connected THEN "WhatsApp not connected"
    ELSE IF outcome = "refused" THEN "WhatsApp send failed"
    ELSE IF outcome = "raised" THEN "Error sending message"
    ELSE error_message

\* the message after _send_message
Attempted(m, connected, outcome) ==
    [m EXCEPT !.error_message = ErrorAfter(connected, outcome, @),
              !.probes = @ + 1,
              !.sends = @ + (IF connected THEN 1 ELSE 0)]

\* every attempted message goes to the retry queue
ParksAlways(m, success) == TRUE

\* the message goes to the retry queue: the attempt failed and
\* message.retry_count < message.max_retries
Parks(m, success) == ~success /\ CanRetry(m)

\* the rest of one iteration, once time.sleep(wait_time) is over:
\* _send_message asks is_whatsapp_connected, which answers `connected`, and
\* if so calls send_whatsapp_message, whose outcome is given; the message is
\* updated and appended to the history.  A history over its cap is then cut:
\* self.messages_history[-1000:] is a new list, built here, that the thread
\* assigns to self.messages_history in its next step (WTrim)
WAttempt(w, connected, outcome) ==
    /\ \/ workers[w].pc = "send"
       \/ workers[w].pc = "sleep" /\ workers[w].wait_time = 0
    /\ LET id == workers[w].message
           m == msgs[id]
           success == Delivered(connected, outcome)
       IN  /\ msgs' = [msgs EXCEPT
                          ![id] = Processed(Attempted(m, connected, outcome), success)]
           /\ retry_queue' = IF Parks(m, success)
                             THEN Append(retry_queue, id) ELSE retry_queue
           /\ failed_messages' = IF ~success /\ ~CanRetry(m)
                                 THEN Append(failed_messages, id)
                                 ELSE failed_messages
           /\ messages_history' = Append(messages_history, id)
           /\ workers' = [workers EXCEPT
                             ![w].pc = IF Len(messages_history') > HistoryCap
                                       THEN "trim" ELSE "loop",
                             ![w].history_slice =
                                 IF Len(messages_history') > HistoryCap
                                 THEN TrimHistory(messages_history') ELSE <<>>,
                             ![w].message = 0, ![w].wait_time = 0,
                             ![w].time_since_last = IF success THEN 0 ELSE @]
           /\ since_delivery' = IF success THEN 0 ELSE since_delivery
    /\ callers' = Disturb(callers, 0)
    /\ ret' = NoRet
    /\ UNCHANGED <<queue, processing, budget>>
    /\ UNCHANGED <<svars, uvars>>

\* self.messages_history = <the list built from the last 1000 entries>
WTrim(w) ==
    /\ workers[w].pc = "trim"
    /\ messages_history' = workers[w].history_slice
    /\ workers' = [workers EXCEPT ![w].pc = "loop", ![w].history_slice = <<>>]
    /\ callers' = Disturb(callers, 0)
    /\ ret' = NoRet
    /\ UNCHANGED <<msgs, queue, retry_queue, failed_messages, processing,
                   since_delivery, budget>>
    /\ UNCHANGED <<svars, uvars>>

\* the same with WhatsApp connected: send_whatsapp_message answers success
WSend(w, success) == WAttempt(w, TRUE, IF success THEN "sent" ELSE "refused")

\* the clock advances by dt seconds.  A call into the queue does no blocking
\* I/O and is over long before a time step has passed: the clock is advanced
\* between calls (the worker's steps still interleave with a call's)
Tick(dt) ==
    /\ \A t \in Callers : callers[t].pc = "idle"
    /\ msgs' = [id \in DOMAIN msgs |->
                   [msgs[id] EXCEPT
                      !.scheduled_time = Max(0, @ - dt),
                      !.since_attempt =
                          IF msgs[id].status = RETRYING
                          THEN Min(RetryDelay(msgs[id].retry_count), @ + dt)
                          ELSE @]]
    /\ workers' = [w \in WorkerSlots |->
                     IF workers[w].pc = "dead" THEN workers[w]
                     ELSE [workers[w] EXCEPT
                             !.time_since_last = Min(delay_between_messages, @ + dt),
                             !.wait_time = Max(0, @ - dt)]]
    /\ since_delivery' = Min(delay_between_messages, since_delivery + dt)
    /\ ret' = NoRet
    /\ UNCHANGED <<queue, retry_queue, messages_history, failed_messages,
                   processing, callers, budget>>
    /\ UNCHANGED <<svars, uvars>>

(***************************************************************************)
(* cancel_messages_for_client                                              *)
(***************************************************************************)
IsTargetAny(m, client_id) == TRUE
\* message.client_id == client_id
IsTarget(m, client_id) == m.client_id = client_id

\* one turn of the drain loop, self.queue.get_nowait(), by the call whose
\* locals are c
DrainTurn(t, c) ==
    IF queue = <<>>
    THEN /\ callers' = [callers EXCEPT ![t] = [c EXCEPT !.pc = "swap"]]
         /\ UNCHANGED <<msgs, queue, messages_history>>
    ELSE LET id == Head(queue)
         IN  /\ queue' = Tail(queue)
             /\ IF IsTarget(msgs[id], c.client_id)
                THEN /\ msgs' = [msgs EXCEPT ![id] = SetStatus(@, CANCELLED)]
                     /\ messages_history' = Append(messages_history, id)
                     /\ callers' = [Disturb(callers, t) EXCEPT
                                       ![t] = [c EXCEPT !.cancelled_count = @ + 1]]
                ELSE /\ callers' = [Disturb(callers, t) EXCEPT
                                       ![t] = [c EXCEPT !.new_queue = Append(@, id)]]
                     /\ UNCHANGED <<msgs, messages_history>>

\* the call begins: cancelled_count = 0, new_queue = Queue(), and the first
\* turn of the loop (q0 and h0 are history variables: the queue and the
\* history as the call found them)
CancelStart(t, client_id) ==
    /\ callers[t].pc = "idle"
    /\ DrainTurn(t, [IdleCaller EXCEPT
                        !.pc = "drain", !.op = "cancel", !.client_id = client_id,
                        !.q0 = queue, !.h0 = messages_history])
    /\ ret' = NoRet
    /\ UNCHANGED <<retry_queue, failed_messages, processing, workers,
                   since_delivery, budget>>
    /\ UNCHANGED <<svars, uvars>>

\* a further turn of the drain loop
CancelGet(t) ==
    /\ callers[t].pc = "drain"
    /\ DrainTurn(t, callers[t])
    /\ ret' = NoRet
    /\ UNCHANGED <<retry_queue, failed_messages, processing, workers,
                   since_delivery, budget>>
    /\ UNCHANGED <<svars, uvars>>

InRetry(id) == \E i \in DOMAIN retry_queue : retry_queue[i] = id

\* the messages of the client that the returning call leaves parked
MarkKept(client_id) ==
    [id \in DOMAIN msgs |->
        IF InRetry(id) /\ msgs[id].client_id = client_id
        THEN [msgs[id] EXCEPT !.kept = TRUE] ELSE msgs[id]]

CancelSwapPurging(t) ==
    /\ callers[t].pc = "swap"
    /\ queue' = callers[t].new_queue
    /\ retry_queue' = SelectSeq(retry_queue,
                         LAMBDA id : msgs[id].client_id # callers[t].client_id)
    /\ msgs' = [id \in DOMAIN msgs |->
                  IF InRetry(id) /\ msgs[id].client_id = callers[t].client_id
                  THEN SetStatus(msgs[id], CANCELLED) ELSE msgs[id]]
    /\ ret' = CancelRet(callers[t].cancelled_count)
    /\ callers' = [Disturb(callers, t) EXCEPT ![t] = IdleCaller]
    /\ UNCHANGED <<messages_history, failed_messages, processing, workers,
                   since_delivery, budget>>
    /\ UNCHANGED <<svars, uvars>>

\* self.queue = new_queue; return cancelled_count
CancelSwap(t) ==
    /\ callers[t].pc = "swap"
    /\ callers[t].op = "cancel"
    /\ queue' = callers[t].new_queue
    /\ msgs' = MarkKept(callers[t].client_id)
    /\ ret' = CancelRet(callers[t].cancelled_count)
    /\ callers' = [Disturb(callers, t) EXCEPT ![t] = IdleCaller]
    /\ UNCHANGED <<retry_queue, messages_history, failed_messages,
                   processing, workers, since_delivery, budget>>
    /\ UNCHANGED <<svars, uvars>>

\* clear_failed_messages() on thread t
ClearFailedMessages(t) ==
    /\ callers[t].pc = "idle"
    /\ failed_messages' = <<>>
    /\ ret' = NoRet
    /\ UNCHANGED <<msgs, queue, retry_queue, messages_history, processing,
                   workers, callers, since_delivery, budget>>
    /\ UNCHANGED <<svars, uvars>>

\* get_recent_messages(limit): the last `limit` entries, newest first, each
\* read from the object as it is now
GetRecentMessages(limit) ==
    LET h == messages_history
        recent == IF limit > 0
                  THEN SubSeq(h, Max(1, Len(h) - limit + 1), Len(h)) ELSE h
    IN  [i \in 1..Len(recent) |->
            LET id == recent[Len(recent) + 1 - i]
            IN  [id |-> id, client_id |-> msgs[id].client_id,
                 status |-> msgs[id].status,
                 retry_count |-> msgs[id].retry_count]]

(***************************************************************************)
(* Text.  Job ids, dates and times of day are strings that the code builds *)
(* and takes apart; the model keeps them as sequences of characters.       *)
(***************************************************************************)
DigitSeq == <<"0", "1", "2", "3", "4", "5", "6", "7", "8", "9">>
DigitVal(c) == (CHOOSE i \in DOMAIN DigitSeq : DigitSeq[i] = c) - 1

\* f'{n}' for a natural number n
RECURSIVE Dec(_)
Dec(n) == IF n < 10 THEN <<DigitSeq[n + 1]>>
          ELSE Dec(n \div 10) \o <<DigitSeq[(n % 10) + 1]>>

\* f'{n:02d}', and the zero padding of strftime
RECURSIVE PadLeft(_, _)
PadLeft(str, width) ==
    IF Len(str) >= width THEN str ELSE PadLeft(<<"0">> \o str, width)
Pad(n, width) == PadLeft(Dec(n), width)

\* int(str) for the strings of digits; -1 stands for the ValueError
RECURSIVE ParseInt(_)
ParseInt(str) ==
    IF str = <<>> \/ \E i \in DOMAIN str : str[i] \notin DigitChars THEN -1
    ELSE IF Len(str) = 1 THEN DigitVal(str[1])
    ELSE 10 * ParseInt(SubSeq(str, 1, Len(str) - 1)) + DigitVal(str[Len(str)])

\* str.split(sep)
RECURSIVE Split(_, _)
Split(str, sep) ==
    IF \A i \in DOMAIN str : str[i] # sep THEN <<str>>
    ELSE LET k == CHOOSE i \in DOMAIN str :
                      str[i] = sep /\ \A j \in 1..(i - 1) : str[j] # sep
         IN  <<SubSeq(str, 1, k - 1)>> \o Split(SubSeq(str, k + 1, Len(str)), sep)

\* sub in str
Contains(str, sub) ==
    \E i \in 1..(Len(str) - Len(sub) + 1) : SubSeq(str, i, i + Len(sub) - 1) = sub

\* str.startswith(prefix)
StartsWith(str, prefix) ==
    Len(str) >= Len(prefix) /\ SubSeq(str, 1, Len(prefix)) = prefix

(***************************************************************************)
(* The calendar of datetime                                                *)
(***************************************************************************)
IsLeap(year) == year % 4 = 0 /\ (year % 100 # 0 \/ year % 400 = 0)
DaysInMonth(year, month) ==
    IF month = 2 THEN (IF IsLeap(year) THEN 29 ELSE 28)
    ELSE IF month \in {4, 6, 9, 11} THEN 30 ELSE 31

NoDate == Date(0, 0, 0)
IsDate(d) ==
    /\ d.year \in 1..9999
    /\ d.month \in 1..12
    /\ d.day \in 1..DaysInMonth(d.year, d.month)

\* d + timedelta(days=1) and d - timedelta(days=1)
NextDate(d) ==
    IF d.day < DaysInMonth(d.year, d.month) THEN Date(d.year, d.month, d.day + 1)
    ELSE IF d.month < 12 THEN Date(d.year, d.month + 1, 1)
    ELSE Date(d.year + 1, 1, 1)
PrevDate(d) ==
    IF d.day > 1 THEN Date(d.year, d.month, d.day - 1)
    ELSE IF d.month > 1 THEN Date(d.year, d.month - 1, DaysInMonth(d.year, d.month - 1))
    ELSE Date(d.year - 1, 12, 31)

\* d - timedelta(days=n)
RECURSIVE MinusDays(_, _)
MinusDays(d, n) == IF n = 0 THEN d ELSE MinusDays(PrevDate(d), n - 1)
RECURSIVE PlusDays(_, _)
PlusDays(d, n) == IF n = 0 THEN d ELSE PlusDays(NextDate(d), n - 1)

DateNotAfter(d1, d2) ==
    \/ d1.year < d2.year
    \/ d1.year = d2.year /\ d1.month < d2.month
    \/ d1.year = d2.year /\ d1.month = d2.month /\ d1.day <= d2.day

\* d1 < d2
DateBefore(d1, d2) ==
    \/ d1.year < d2.year
    \/ d1.year = d2.year /\ d1.month < d2.month
    \/ d1.year = d2.year /\ d1.month = d2.month /\ d1.day < d2.day

\* datetime.strptime(str, '%Y-%m-%d'); NoDate stands for the ValueError
ParseDate(str) ==
    LET parts == Split(str, "-")
    IN  IF Len(parts) # 3 THEN NoDate
        ELSE LET d == Date(ParseInt(parts[1]), ParseInt(parts[2]), ParseInt(parts[3]))
             IN  IF Len(parts[1]) = 4 /\ Len(parts[2]) \in 1..2
                    /\ Len(parts[3]) \in 1..2 /\ IsDate(d)
                 THEN d ELSE NoDate

\* d.strftime('%Y-%m-%d') with sep = <<"-">>, d.strftime('%Y%m%d') with <<>>
FormatDate(d, sep) ==
    Pad(d.year, 4) \o sep \o Pad(d.month, 2) \o sep \o Pad(d.day, 2)

\* tuple(map(int, str.split(':'))); <<>> stands for the ValueError
ParseTime(str) ==
    LET parts == Split(str, ":")
        nums == [i \in DOMAIN parts |-> ParseInt(parts[i])]
    IN  IF \E i \in DOMAIN nums : nums[i] < 0 THEN <<>> ELSE nums

(***************************************************************************)
(* The clients of the snapshot and the job store                           *)
(***************************************************************************)
\* clients in a snapshot, the days that pass and the changes of the stored
\* clients in a run
MaxClients == 2
MaxDays == 1
MaxEdits == 2

SchedClientIds == {<<"a">>, <<"b">>}
\* plan_duration: the reminder three days before falls before the first day
\* or on the payment day of the other plan
PlanDates ==
    { <<"2", "0", "2", "5", "-", "0", "1", "-", "0", "1">>,
      <<"2", "0", "2", "5", "-", "0", "1", "-", "0", "4">> }
\* reminder_time_3days and reminder_time_payment: the defaults of Client, and
\* the last minute of the day for both
ReminderTimes ==
    { << <<"0", "9", ":", "0", "0">>, <<"1", "0", ":", "0", "0">> >>,
      << <<"2", "3", ":", "5", "9">>, <<"2", "3", ":", "5", "9">> >> }

\* payment_status: the default of Client, and the value that stops reminders
PaymentStatuses == {"pending", "paid"}
\* phone: a number the validators let through
ClientPhone == Rep("5", 11)

Client(id, plan_duration, reminder_time_3days, reminder_time_payment, payment_status) ==
    [id |-> id, phone |-> ClientPhone, plan_duration |-> plan_duration,
     reminder_time_3days |-> reminder_time_3days,
     reminder_time_payment |-> reminder_time_payment,
     payment_status |-> payment_status]

Clients ==
    {Client(id, d, t[1], t[2], "pending") : id \in SchedClientIds,
                                            d \in PlanDates, t \in ReminderTimes}

\* the lists storage can hold: add_client refuses an id that is already there
Snapshots ==
    UNION {{cs \in [1..n -> Clients] :
               \A i, j \in 1..n : i # j => cs[i].id # cs[j].id} : n \in 0..MaxClients}

ReminderPrefix == <<"r", "e", "m", "i", "n", "d", "e", "r", "_">>
Type3Days == <<"3", "d", "a", "y", "s">>
TypePayment == <<"p", "a", "y", "m", "e", "n", "t">>
DailyCleanupId == <<"d", "a", "i", "l", "y", "_", "c", "l", "e", "a", "n", "u", "p">>

IsReminderJobAny(job) == TRUE

\* job.id.startswith('reminder_')
IsReminderJob(job) == StartsWith(job.id, ReminderPrefix)

RemoveNoJobs(js) == js

\* scheduler.remove_job for every reminder job
RemoveReminderJobs(js) == SelectSeq(js, LAMBDA job : ~IsReminderJob(job))

AddJobDuplicating(js, job) == Append(js, job)

\* scheduler.add_job(..., id=job.id, replace_existing=True)
AddJob(js, job) ==
    IF \E i \in DOMAIN js : js[i].id = job.id
    THEN LET at == CHOOSE i \in DOMAIN js : js[i].id = job.id
         IN  [js EXCEPT ![at] = job]
    ELSE Append(js, job)

\* f'reminder_{reminder_type}_{client.id}_{date_obj.strftime("%Y%m%d")}_{send_hour}{send_minute:02d}'
JobId(reminder_type, client_id, date_obj, send_hour, send_minute) ==
    ReminderPrefix \o reminder_type \o <<"_">> \o client_id \o <<"_">>
        \o FormatDate(date_obj, <<>>) \o <<"_">>
        \o Dec(send_hour) \o Pad(send_minute, 2)

ReminderJob(reminder_type, client_id, date_obj, send_hour, send_minute) ==
    [id |-> JobId(reminder_type, client_id, date_obj, send_hour, send_minute),
     func |-> "send_reminder",
     args |-> <<client_id, reminder_type>>,
     trigger |-> [year |-> date_obj.year, month |-> date_obj.month,
                  day |-> date_obj.day, hour |-> send_hour,
                  minute |-> send_minute]]

\* the job of schedule_daily_cleanup: every day at 2 AM
DailyCleanupJob ==
    [id |-> DailyCleanupId,
     func |-> "cleanup_expired_jobs",
     args |-> <<>>,
     trigger |-> [year |-> 0, month |-> 0, day |-> 0, hour |-> 2, minute |-> 0]]

\* group_clients_by_reminder_date: the groups in the order the dict keeps,
\* each with its date key and the clients of either kind in snapshot order
GroupPut(grouped, date_key, reminder_type, client) ==
    LET put(g) == IF reminder_type = Type3Days
                  THEN [g EXCEPT !.days3 = Append(@, client)]
                  ELSE [g EXCEPT !.payment = Append(@, client)]
        empty == [date_key |-> date_key, days3 |-> <<>>, payment |-> <<>>]
    IN  IF \E i \in DOMAIN grouped : grouped[i].date_key = date_key
        THEN LET at == CHOOSE i \in DOMAIN grouped : grouped[i].date_key = date_key
             IN  [grouped EXCEPT ![at] = put(@)]
        ELSE Append(grouped, put(empty))

\* one turn of the loop of group_clients_by_reminder_date: the client at
\* position i goes into the group of either date; a plan_duration that does
\* not parse is logged and the client is left out
GroupStep(grouped, cs, i) ==
    LET client == cs[i]
        plan_date == ParseDate(client.plan_duration)
    IN  IF plan_date = NoDate THEN grouped
        ELSE LET reminder_3days_date == MinusDays(plan_date, 3)
                 g1 == GroupPut(grouped,
                                FormatDate(reminder_3days_date, <<"-">>),
                                Type3Days, client)
             IN  GroupPut(g1, FormatDate(plan_date, <<"-">>), TypePayment, client)

\* the turns of the loop for the clients at positions lo..hi, in order
RECURSIVE GroupRange(_, _, _, _)
GroupRange(grouped, cs, lo, hi) ==
    IF lo > hi THEN grouped
    ELSE IF lo = hi THEN GroupStep(grouped, cs, lo)
    ELSE LET mid == (lo + hi) \div 2
             first == GroupRange(grouped, cs, lo, mid)
         IN  \* the earlier turns are over when the later ones start
             IF Len(first) >= 0 THEN GroupRange(first, cs, mid + 1, hi)
             ELSE first

GroupClientsByReminderDate(cs) == GroupRange(<<>>, cs, 1, Len(cs))

\* send_minute after `send_minute = minute + index` and the while loop
SendMinute(minute, index) == (minute + index) % 60

CarriedHourLost(hour, minute, index) == hour
\* send_hour after `send_hour = hour` and the while loop, each turn of which
\* takes 60 from send_minute and adds 1 to send_hour
CarriedHour(hour, minute, index) == hour + ((minute + index) \div 60)

\* one turn of the loop of schedule_batch_reminders, for the client at
\* position i: acc holds the job store and date_obj, which the turn hands on
\* to the next turn as it leaves it
BatchStep(acc, clients_for_date, i, reminder_type, base_time) ==
    LET client == clients_for_date[i]
        index == i - 1
        hour == base_time[1]
        minute == base_time[2]
        send_minute == SendMinute(minute, index)
        carried == CarriedHour(hour, minute, index)
        send_hour == IF carried >= 24 THEN 0 ELSE carried
        date_obj == IF carried >= 24 THEN NextDate(acc.date_obj) ELSE acc.date_obj
        \* CronTrigger refuses a field out of its range
        valid == send_hour \in 0..23 /\ send_minute \in 0..59 /\ IsDate(date_obj)
        \* add_job raises, the handler of the turn logs it: `continue`
        raised == <<client.id, reminder_type>> \in refused
        job == ReminderJob(reminder_type, client.id, date_obj,
                           send_hour, send_minute)
    IN  [js |-> IF valid /\ ~raised THEN AddJob(acc.js, job) ELSE acc.js,
         date_obj |-> date_obj]

RECURSIVE BatchRangeAborting(_, _, _, _, _, _)
BatchRangeAborting(acc, clients_for_date, lo, hi, reminder_type, base_time) ==
    IF lo > hi \/ <<clients_for_date[lo].id, reminder_type>> \in refused THEN acc
    ELSE BatchRangeAborting(BatchStep(acc, clients_for_date, lo, reminder_type,
                                      base_time),
                            clients_for_date, lo + 1, hi, reminder_type, base_time)

\* the turns of the loop for the clients at positions lo..hi, in order
RECURSIVE BatchRange(_, _, _, _, _, _)
BatchRange(acc, clients_for_date, lo, hi, reminder_type, base_time) ==
    IF lo > hi THEN acc
    ELSE IF lo = hi
         THEN BatchStep(acc, clients_for_date, lo, reminder_type, base_time)
    ELSE LET mid == (lo + hi) \div 2
             first == BatchRange(acc, clients_for_date, lo, mid,
                                 reminder_type, base_time)
         IN  \* the earlier turns are over when the later ones start
             IF Len(first.js) >= 0
             THEN BatchRange(first, clients_for_date, mid + 1, hi,
                             reminder_type, base_time)
             ELSE first

\* schedule_batch_reminders: `hour, minute = base_time` fails for a tuple
\* that is not a pair, and nothing is scheduled
ScheduleBatchReminders(js, clients_for_date, reminder_type, base_time, date_obj) ==
    IF Len(base_time) # 2 THEN js
    ELSE BatchRange([js |-> js, date_obj |-> date_obj], clients_for_date,
                    1, Len(clients_for_date), reminder_type, base_time).js

\* the body of the loop of setup_reminders for one group; an error in the
\* parsing of a time ends the work on the group, what is scheduled stays
SetupGroup(js, group, now_date) ==
    LET date_obj == ParseDate(group.date_key)
    IN  IF date_obj = NoDate \/ DateBefore(date_obj, now_date) THEN js
        ELSE LET time3 == IF group.days3 = <<>> THEN <<0, 0>>
                          ELSE ParseTime(group.days3[1].reminder_time_3days)
                 js3 == IF group.days3 = <<>> \/ time3 = <<>> THEN js
                        ELSE ScheduleBatchReminders(js, group.days3, Type3Days,
                                                    time3, date_obj)
                 timep == IF group.payment = <<>> THEN <<0, 0>>
                          ELSE ParseTime(group.payment[1].reminder_time_payment)
             IN  IF time3 = <<>> THEN js
                 ELSE IF group.payment = <<>> \/ timep = <<>> THEN js3
                 ELSE ScheduleBatchReminders(js3, group.payment, TypePayment,
                                             timep, date_obj)

RECURSIVE SetupGroupsFrom(_, _, _, _)
SetupGroupsFrom(js, grouped, i, now_date) ==
    IF i > Len(grouped) THEN js
    ELSE SetupGroupsFrom(SetupGroup(js, grouped[i], now_date), grouped,
                         i + 1, now_date)

JobsAfterSetupKeeping(js, cs, now_date) == js

\* the job store after setup_reminders: the reminder jobs are removed, and
\* unless the snapshot is empty the groups are scheduled and the daily
\* cleanup is registered
JobsAfterSetup(js, cs, now_date) ==
    LET cleared == RemoveReminderJobs(js)
    IN  IF cs = <<>> THEN cleared
        ELSE AddJob(SetupGroupsFrom(cleared, GroupClientsByReminderDate(cs),
                                    1, now_date),
                    DailyCleanupJob)

\* runs of setup_reminders in a row that are told apart
RunsTold == 2

\* what setup_reminders(scheduler) does, start_message_queue() included
SetupRun ==
    /\ processing \/ SlotLeft
    /\ processing' = TRUE
    /\ workers' = IF processing THEN workers
                  ELSE [workers EXCEPT ![FreeSlot] = FreshWorker]
    /\ jobs' = JobsAfterSetup(jobs, clients, today)
    /\ last_run' = Min(RunsTold, last_run + 1)
    /\ UNCHANGED <<msgs, queue, retry_queue, messages_history, failed_messages,
                   callers, since_delivery, budget, clients, today, edits,
                   refused, uvars>>

\* setup_reminders(scheduler), called by app.py and by the routes that change
\* the stored clients
SetupReminders ==
    /\ SetupRun
    /\ ret' = NoRet
    /\ paused' = paused

\* setup_reminders when the snapshot cannot be fetched: the reminder jobs are
\* removed before storage is asked, get_clients logs the error and returns
\* an empty list, and setup_reminders returns at `if not clients`; had the
\* fetch raised, the outer handler would have logged it at the same point
SetupRemindersFetchFails ==
    /\ processing \/ SlotLeft
    /\ processing' = TRUE
    /\ workers' = IF processing THEN workers
                  ELSE [workers EXCEPT ![FreeSlot] = FreshWorker]
    /\ jobs' = JobsAfterSetup(jobs, <<>>, today)
    /\ last_run' = 0
    /\ ret' = NoRet
    /\ UNCHANGED <<msgs, queue, retry_queue, messages_history, failed_messages,
                   callers, since_delivery, budget, clients, today, edits,
                   refused, paused, uvars>>

\* the stored clients change: a client is added, edited or deleted
StorageChanges(cs) ==
    /\ edits < MaxEdits
    /\ cs # clients
    /\ clients' = cs
    /\ edits' = edits + 1
    /\ last_run' = 0
    /\ ret' = NoRet
    /\ UNCHANGED <<msgs, queue, retry_queue, messages_history, failed_messages,
                   processing, workers, callers, since_delivery, budget,
                   jobs, today, refused, paused, uvars>>

LastDay == PlusDays(FirstDay, MaxDays)

\* midnight passes
DayPasses ==
    /\ DateBefore(today, LastDay)
    /\ today' = NextDate(today)
    /\ last_run' = 0
    /\ ret' = NoRet
    /\ UNCHANGED <<msgs, queue, retry_queue, messages_history, failed_messages,
                   processing, workers, callers, since_delivery, budget,
                   jobs, clients, edits, refused, paused,
                   uvars>>

\* cleanup_expired_jobs ends: removed_count, which it logs
CleanupRet(removed_count) ==
    [op |-> "cleanup", ok |-> TRUE, count |-> removed_count, error |-> "",
     input |-> <<>>]

\* the date of the trigger of a reminder job is more than one day old
IsExpiredJob(job) ==
    /\ IsReminderJob(job)
    /\ DateBefore(Date(job.trigger.year, job.trigger.month, job.trigger.day),
                  PrevDate(today))

\* cleanup_expired_jobs().  The date of a job is read from
\* job.trigger.fields[k].expressions[0].value.  The expression objects are
\* APScheduler's: where they carry the attribute `value` the dates are read;
\* where they do not (the range expressions of APScheduler 3 keep the number
\* as `first` and `last`), the read raises AttributeError for every reminder
\* job, the handler of the turn logs a warning, and no job is removed
CleanupExpiredJobs ==
    /\ \E has_value \in BOOLEAN :
          jobs' = IF has_value THEN SelectSeq(jobs, LAMBDA job : ~IsExpiredJob(job))
                  ELSE jobs
    /\ last_run' = 0
    /\ ret' = CleanupRet(Len(jobs) - Len(jobs'))
    /\ UNCHANGED <<msgs, queue, retry_queue, messages_history, failed_messages,
                   processing, workers, callers, since_delivery, budget,
                   clients, today, edits, refused, paused,
                   uvars>>

(***************************************************************************)
(* pause_reminders_for_client and resume_reminders_for_client              *)
(***************************************************************************)
PauseRet(client_id) ==
    [op |-> "pause", ok |-> TRUE, count |-> 0, error |-> "", input |-> client_id]
ResumeRet(client_id) ==
    [op |-> "resume", ok |-> TRUE, count |-> 0, error |-> "", input |-> client_id]

\* job.id.startswith('reminder_') and client_id in job.id
IsJobOfClient(job, client_id) == IsReminderJob(job) /\ Contains(job.id, client_id)

\* resume_reminders_for_client(client_id): setup_reminders(scheduler)
ResumeRemindersForClient(client_id) ==
    /\ SetupRun
    /\ ret' = ResumeRet(client_id)
    /\ paused' = paused

(***************************************************************************)
(* send_reminder, the function of the reminder jobs                        *)
(***************************************************************************)
\* the client ids are character sequences where the code takes them apart or
\* puts them into job ids, and atoms in the queue, which only compares them
ClientKey(id) ==
    IF id \in {<<"a">>, <<"k", "1">>} THEN "c1"
    ELSE IF id = <<"k", "2">> THEN "c3"
    ELSE "c2"

\* the text get_reminder_message returns: a template filled in for the client
ReminderBody == <<Run("a", 1)>>

\* storage.get_client_by_id: the first client with the id, <<>> for None
GetClientById(cs, client_id) ==
    LET found == {k \in DOMAIN cs : cs[k].id = client_id}
    IN  IF found = {} THEN <<>>
        ELSE <<cs[CHOOSE k \in found : \A j \in found : k <= j]>>

\* Client.is_expired: days_until_expiration < 0, the days counted from
\* date.today(); a plan_duration that does not parse counts as 0 days
IsExpired(client, now_date) ==
    LET plan_date == ParseDate(client.plan_duration)
    IN  plan_date # NoDate /\ DateBefore(plan_date, now_date)

ShouldSendAlways(client, now_date) == TRUE

\* Client.should_send_reminder
ShouldSendReminder(client, now_date) ==
    client.payment_status # "paid" /\ ~IsExpired(client, now_date)

\* send_reminder returned without handing a message to the queue
SendSkipped(client_id, reminder_type) ==
    [op |-> "send_reminder", ok |-> FALSE, count |-> 0, error |-> "",
     input |-> <<client_id, reminder_type>>]

\* the readings datetime.now() can give to a call: the latest reading a
\* message carries (two calls inside one tick of the clock, or two threads at
\* once) or a later one
ClockReadings ==
    LET latest == Max(0, CHOOSE r \in {0} \cup {msgs[id].scheduled_at : id \in DOMAIN msgs} :
                             \A id \in DOMAIN msgs : msgs[id].scheduled_at <= r)
    IN  {latest, latest + 1}

ReminderPriorityExpiredFirst(client, reminder_type, now_date) ==
    IF IsExpired(client, now_date) THEN "URGENT"
    ELSE IF reminder_type = TypePayment THEN "HIGH"
    ELSE "NORMAL"

\* priority in send_reminder
ReminderPriority(client, reminder_type, now_date) ==
    IF reminder_type = TypePayment THEN "HIGH"
    ELSE IF IsExpired(client, now_date) THEN "URGENT"
    ELSE "NORMAL"

\* the QueuedMessage queue_reminder_message builds
QueuedReminder(client, reminder_type, now_date, reading) ==
    [NewMessage(ClientKey(client.id), DefaultMaxRetries) EXCEPT
        !.message_type = reminder_type,
        !.priority = ReminderPriority(client, reminder_type, now_date),
        !.scheduled_at = reading]

\* what date.today() can answer later in a call that began on the date
\* `now_date`: the same date, or the next one when midnight passes meanwhile
LaterReadings(now_date) ==
    {now_date} \cup (IF DateBefore(now_date, LastDay) THEN {NextDate(now_date)}
                     ELSE {})

\* send_reminder(client_id, reminder_type) on thread t.  should_send_reminder
\* reads date.today(); client.status, from which the priority is derived
\* after get_reminder_message has built the text, reads it again
SendReminderCall(t, client_id, reminder_type) ==
    LET got == GetClientById(clients, client_id)
    IN  IF got = <<>> \/ ~ShouldSendReminder(got[1], today)
        THEN /\ callers[t].pc = "idle"
             /\ ret' = SendSkipped(client_id, reminder_type)
             /\ UNCHANGED <<msgs, queue, retry_queue, messages_history,
                            failed_messages, processing, workers, callers,
                            since_delivery, budget, today>>
        ELSE \E reading \in ClockReadings, status_date \in LaterReadings(today) :
                 /\ today' = status_date
                 /\ AddMessageOf(t, got[1].phone, ReminderBody,
                                 ClientKey(got[1].id),
                                 QueuedReminder(got[1], reminder_type, status_date,
                                                reading))

\* the scheduler runs reminder job i on its date, on thread t: the trigger
\* names one minute of one day, so the job leaves the job store, and
\* send_reminder(client_id, reminder_type) runs
SendReminder(t, i) ==
    /\ i \in DOMAIN jobs
    /\ jobs[i].func = "send_reminder"
    /\ Date(jobs[i].trigger.year, jobs[i].trigger.month, jobs[i].trigger.day) = today
    /\ jobs' = [k \in 1..(Len(jobs) - 1) |-> IF k < i THEN jobs[k] ELSE jobs[k + 1]]
    /\ SendReminderCall(t, jobs[i].args[1], jobs[i].args[2])
    /\ last_run' = 0
    /\ UNCHANGED <<clients, edits, refused, paused, uvars>>

\* force_send_reminder(client_id, reminder_type) on thread t
ForceSendReminder(t, client_id, reminder_type) ==
    /\ SendReminderCall(t, client_id, reminder_type)
    /\ last_run' = 0
    /\ UNCHANGED <<jobs, clients, edits, refused, paused, uvars>>

\* pause_reminders_for_client(client_id) on thread t begins:
\* message_queue.cancel_messages_for_client(client_id) and the first turn of
\* its drain loop; the further turns are those of CancelGet
PauseStart(t, client_id) ==
    /\ callers[t].pc = "idle"
    /\ DrainTurn(t, [IdleCaller EXCEPT
                        !.pc = "drain", !.op = "pause",
                        !.client_id = ClientKey(client_id), !.input = client_id,
                        !.q0 = queue, !.h0 = messages_history])
    /\ ret' = NoRet
    /\ paused' = paused \cup {client_id}
    /\ UNCHANGED <<retry_queue, failed_messages, processing, workers,
                   since_delivery, budget>>
    /\ UNCHANGED <<jobs, clients, today, last_run, edits, refused, uvars>>

\* the rest of pause_reminders_for_client: cancel_messages_for_client
\* returns, the jobs that pass the test are removed, and the call returns True
PauseFinish(t) ==
    /\ callers[t].pc = "swap"
    /\ callers[t].op = "pause"
    /\ queue' = callers[t].new_queue
    /\ msgs' = MarkKept(callers[t].client_id)
    /\ jobs' = SelectSeq(jobs, LAMBDA job : ~IsJobOfClient(job, callers[t].input))
    /\ ret' = PauseRet(callers[t].input)
    /\ callers' = [Disturb(callers, t) EXCEPT ![t] = IdleCaller]
    /\ last_run' = 0
    /\ UNCHANGED <<retry_queue, messages_history, failed_messages,
                   processing, workers, since_delivery, budget>>
    /\ UNCHANGED <<clients, today, edits, refused, paused, uvars>>

(***************************************************************************)
(* Specifications                                                          *)
(***************************************************************************)
WorkerNext ==
    \/ \E w \in WorkerSlots : WLoop(w)
    \/ \E w \in WorkerSlots : WGet(w)
    \/ \E w \in WorkerSlots, success \in BOOLEAN : WSend(w, success)

\* Spec: one calling thread, every operation, the worker threads, the clock
Init == QInit(MaxMsgs)

Next ==
    \/ \E t \in OneCaller, phone \in SomePhones, body \in SomeBodies,
          client_id \in ClientIds, max_retries \in RetryLimits :
          AddMessage(t, phone, body, client_id, max_retries)
    \/ \E t \in OneCaller : StartProcessing(t)
    \/ \E t \in OneCaller : SpawnWorker(t)
    \/ \E t \in OneCaller : StopProcessing(t)
    \/ \E t \in OneCaller : JoinReturn(t)
    \/ \E t \in OneCaller, client_id \in CancelTargets : CancelStart(t, client_id)
    \/ \E t \in OneCaller : CancelGet(t)
    \/ \E t \in OneCaller : CancelSwap(t)
    \/ WorkerNext
    \/ \E dt \in TimeSteps : Tick(dt)

Spec == Init /\ [][Next]_vars

\* SpecRetry: the same operations on messages with the default max_retries
InitRetry == QInit(RetryRunMsgs)

NextRetry ==
    \/ \E t \in OneCaller, phone \in SomePhones, body \in SomeBodies,
          client_id \in ClientIds :
          AddMessage(t, phone, body, client_id, DefaultMaxRetries)
    \/ \E t \in OneCaller : StartProcessing(t)
    \/ \E t \in OneCaller : SpawnWorker(t)
    \/ \E t \in OneCaller : StopProcessing(t)
    \/ \E t \in OneCaller : JoinReturn(t)
    \/ \E t \in OneCaller, client_id \in CancelTargets : CancelStart(t, client_id)
    \/ \E t \in OneCaller : CancelGet(t)
    \/ \E t \in OneCaller : CancelSwap(t)
    \/ WorkerNext
    \/ \E dt \in TimeSteps : Tick(dt)

SpecRetry == InitRetry /\ [][NextRetry]_vars

\* SpecAdd: add_message on every recipient and body, beside the worker
InitAdd == QInit(RetryRunMsgs)

NextAdd ==
    \/ \E t \in OneCaller, phone \in Phones, body \in Bodies,
          client_id \in {"", "c1"} :
          AddMessage(t, phone, body, client_id, 1)
    \/ \E t \in OneCaller : SpawnWorker(t)
    \/ WorkerNext
    \/ \E dt \in TimeSteps : Tick(dt)

SpecAdd == InitAdd /\ [][NextAdd]_vars

\* SpecCancel: longer queues, one worker thread (nobody stops it)
InitCancel == QInit(CancelRunMsgs)

NextCancel ==
    \/ \E t \in OneCaller, phone \in SomePhones, body \in SomeBodies,
          client_id \in ClientIds :
          AddMessage(t, phone, body, client_id, 0)
    \/ \E t \in OneCaller : SpawnWorker(t)
    \/ \E t \in OneCaller, client_id \in CancelTargets : CancelStart(t, client_id)
    \/ \E t \in OneCaller : CancelGet(t)
    \/ \E t \in OneCaller : CancelSwap(t)
    \/ WorkerNext
    \/ \E dt \in TimeSteps : Tick(dt)

SpecCancel == InitCancel /\ [][NextCancel]_vars

\* SpecLive: concurrent callers, a worker that is never stopped, and the
\* scheduling the threads get: every thread that can take a step eventually
\* takes it, and time passes
InitLive == QInit(LiveRunMsgs)

NextLive ==
    \/ \E t \in Callers, phone \in SomePhones, body \in SomeBodies,
          client_id \in ClientIds :
          AddMessage(t, phone, body, client_id, 1)
    \/ \E t \in Callers : SpawnWorker(t)
    \/ \E t \in Callers, client_id \in CancelTargets : CancelStart(t, client_id)
    \/ \E t \in Callers : CancelGet(t)
    \/ \E t \in Callers : CancelSwap(t)
    \/ WorkerNext
    \/ \E dt \in TimeSteps : Tick(dt)

Fairness ==
    /\ \A w \in WorkerSlots :
          /\ WF_vars(WLoop(w))
          /\ WF_vars(WGet(w))
          /\ WF_vars(\E success \in BOOLEAN : WSend(w, success))
    /\ \A t \in Callers :
          /\ WF_vars(SpawnWorker(t))
          /\ WF_vars(CancelGet(t))
          /\ WF_vars(CancelSwap(t))
    /\ WF_vars(\E dt \in TimeSteps : Tick(dt))

SpecLive == InitLive /\ [][NextLive]_vars /\ Fairness

\* SpecFull: the pending queue at its limit.  The channel is slow: the worker
\* holds the first message while a burst of reminders is accepted, up to the
\* limit or one short of it; or stop_processing was called meanwhile and the
\* worker has since finished that message and left
InitFull ==
    \E fill \in {max_queue_size - 1, max_queue_size}, running \in BOOLEAN :
        /\ msgs = [i \in 1..(fill + 1) |->
                     IF i = 1 /\ ~running
                     THEN SetStatus(NewMessage("c1", 0), SENT)
                     ELSE NewMessage("c1", 0)]
        /\ queue = [i \in 1..fill |-> i + 1]
        /\ retry_queue = <<>>
        /\ messages_history = IF running THEN <<>> ELSE <<1>>
        /\ failed_messages = <<>>
        /\ processing = running
        /\ workers = [w \in WorkerSlots |->
                        IF w = 1 /\ running
                        THEN [FreshWorker EXCEPT !.pc = "send", !.message = 1]
                        ELSE DeadWorker]
        /\ callers = [t \in Callers |-> IdleCaller]
        /\ ret = NoRet
        /\ since_delivery = IF running THEN delay_between_messages ELSE 0
        /\ budget = FullRunMsgs
        /\ SchedulerIdle

NextFull ==
    \/ \E t \in OneCaller, phone \in SomePhones, body \in SomeBodies,
          client_id \in ClientIds :
          AddMessage(t, phone, body, client_id, 0)
    \/ \E t \in OneCaller : SpawnWorker(t)
    \/ \E w \in WorkerSlots : WLoop(w)
    \/ \E w \in WorkerSlots : WGet(w) /\ Len(queue') >= max_queue_size - FullSlack
    \/ \E w \in WorkerSlots, success \in BOOLEAN : WSend(w, success)
    \/ \E dt \in TimeSteps : Tick(dt)

SpecFull == InitFull /\ [][NextFull]_vars

\* SpecSched: the scheduler.  The stored clients change, setup_reminders and
\* the daily cleanup run, midnight passes; the worker that setup_reminders
\* starts finds the queue empty
InitSched ==
    /\ QInit(0)

NextSched ==
    \/ SetupReminders
    \/ \E cs \in Snapshots : StorageChanges(cs)
    \/ DayPasses
    \/ CleanupExpiredJobs
    \/ \E w \in WorkerSlots : WLoop(w)
    \/ \E w \in WorkerSlots : WGet(w)

SpecSched == InitSched /\ [][NextSched]_vars

\* SpecBatch: setup_reminders on clients that share one expiration date and
\* one reminder time, up to a batch that carries past the hour, and on the
\* times from which a batch passes midnight
MaxBatch == 62
BatchSizes == {1, 2, 3, MaxBatch - 1, MaxBatch}
BatchTimes ==
    { <<"0", "9", ":", "0", "0">>, <<"0", "9", ":", "5", "9">>,
      <<"2", "2", ":", "5", "9">>, <<"2", "3", ":", "5", "9">> }
BatchPlanDate == <<"2", "0", "2", "5", "-", "0", "1", "-", "0", "4">>
BatchClients(n, time) ==
    [i \in 1..n |-> Client(<<"k">> \o Dec(i), BatchPlanDate, time, time, "pending")]

InitBatch ==
    /\ QueueInit(0)
    /\ jobs = <<>>
    /\ \E n \in BatchSizes, time \in BatchTimes : clients = BatchClients(n, time)
    /\ today = FirstDay
    /\ last_run = 0
    /\ edits = 0
    /\ refused = {}
    /\ paused = {}
    /\ UtilitiesIdle

NextBatch ==
    \/ SetupReminders
    \/ DayPasses
    \/ CleanupExpiredJobs
    \/ \E w \in WorkerSlots : WLoop(w)
    \/ \E w \in WorkerSlots : WGet(w)

SpecBatch == InitBatch /\ [][NextBatch]_vars

\* SpecPlan: setup_reminders on clients, paid or not, whose plans end around
\* today: the day before the first day, on it, and one, two, three and five
\* days after it
PlanDatesNear ==
    { <<"2", "0", "2", "4", "-", "1", "2", "-", "2", "9">>,
      <<"2", "0", "2", "4", "-", "1", "2", "-", "3", "0">>,
      <<"2", "0", "2", "4", "-", "1", "2", "-", "3", "1">>,
      <<"2", "0", "2", "5", "-", "0", "1", "-", "0", "1">>,
      <<"2", "0", "2", "5", "-", "0", "1", "-", "0", "2">>,
      <<"2", "0", "2", "5", "-", "0", "1", "-", "0", "4">> }
PlanClients ==
    {Client(id, d, <<"0", "9", ":", "0", "0">>, <<"1", "0", ":", "0", "0">>, p) :
        id \in SchedClientIds, d \in PlanDatesNear, p \in PaymentStatuses}
PlanSnapshots ==
    UNION {{cs \in [1..n -> PlanClients] :
               \A i, j \in 1..n : i # j => cs[i].id # cs[j].id} : n \in 0..MaxClients}

InitPlan ==
    /\ QueueInit(0)
    /\ jobs = <<>>
    /\ clients \in PlanSnapshots
    /\ today = FirstDay
    /\ last_run = 0
    /\ edits = 0
    /\ refused = {}
    /\ paused = {}
    /\ UtilitiesIdle

NextPlan ==
    \/ SetupReminders
    \/ DayPasses
    \/ CleanupExpiredJobs
    \/ \E w \in WorkerSlots : WLoop(w)
    \/ \E w \in WorkerSlots : WGet(w)

SpecPlan == InitPlan /\ [][NextPlan]_vars

\* SpecSend: the reminder jobs fire.  One client is stored, pending or paid,
\* with a plan that has ended, ends today or ends in three days; the record
\* changes between the run of setup_reminders and the day the job fires
SendRunMsgs == 2
SendPlanDates ==
    { <<"2", "0", "2", "4", "-", "1", "2", "-", "2", "9">>,
      <<"2", "0", "2", "4", "-", "1", "2", "-", "3", "1">>,
      <<"2", "0", "2", "5", "-", "0", "1", "-", "0", "2">> }
SendClients ==
    {Client(<<"a">>, d, <<"0", "9", ":", "0", "0">>, <<"1", "0", ":", "0", "0">>, p) :
        d \in SendPlanDates, p \in PaymentStatuses}
SendSnapshots == {<<>>} \cup {<<c>> : c \in SendClients}

InitSend == QInit(SendRunMsgs)

NextSend ==
    \/ SetupReminders
    \/ \E cs \in SendSnapshots : StorageChanges(cs)
    \/ DayPasses
    \/ \E t \in OneCaller, i \in 1..(2 * MaxClients) : SendReminder(t, i)
    \/ \E w \in WorkerSlots : WLoop(w)
    \/ \E w \in WorkerSlots : WGet(w)

SpecSend == InitSend /\ [][NextSend]_vars

\* SpecHist: the history at its cap.  The worker has delivered a thousand
\* messages, or one fewer, and messages of the client whose reminders are
\* about to be cancelled wait in the queue
HistRunMsgs == 1
HistPending == 2
InitHist ==
    \E filled \in {HistoryCap - 1, HistoryCap} :
        /\ msgs = [i \in 1..(filled + HistPending) |->
                     IF i <= filled THEN SetStatus(NewMessage("c2", 0), SENT)
                     ELSE NewMessage("c1", 0)]
        /\ queue = [i \in 1..HistPending |-> filled + i]
        /\ retry_queue = <<>>
        /\ messages_history = [i \in 1..filled |-> i]
        /\ failed_messages = <<>>
        /\ processing = TRUE
        /\ workers = [w \in WorkerSlots |->
                        IF w = 1 THEN [FreshWorker EXCEPT !.time_since_last = 0]
                        ELSE DeadWorker]
        /\ callers = [t \in Callers |-> IdleCaller]
        /\ ret = NoRet
        /\ since_delivery = 0
        /\ budget = HistRunMsgs
        /\ SchedulerIdle

NextHist ==
    \/ \E t \in OneCaller, phone \in SomePhones, body \in SomeBodies,
          client_id \in ClientIds :
          AddMessage(t, phone, body, client_id, 0)
    \/ \E t \in OneCaller, client_id \in CancelTargets : CancelStart(t, client_id)
    \/ \E t \in OneCaller : CancelGet(t)
    \/ \E t \in OneCaller : CancelSwap(t)
    \/ WorkerNext
    \/ \E w \in WorkerSlots : WTrim(w)
    \/ \E dt \in TimeSteps : Tick(dt)

SpecHist == InitHist /\ [][NextHist]_vars

\* SpecFail: the scheduler beside a storage that sometimes cannot be read
NextFail ==
    \/ SetupReminders
    \/ SetupRemindersFetchFails
    \/ \E cs \in Snapshots : StorageChanges(cs)
    \/ DayPasses
    \/ CleanupExpiredJobs
    \/ \E w \in WorkerSlots : WLoop(w)
    \/ \E w \in WorkerSlots : WGet(w)

SpecFail == InitSched /\ [][NextFail]_vars

\* SpecForce: reminders sent by the timer and by hand.  One pending client
\* is stored whose plan ends today or in three days
ForceRunMsgs == 2
ForceSnapshots ==
    {<<>>} \cup {<<c>> : c \in {k \in SendClients : k.payment_status = "pending"}}

InitForce == QInit(ForceRunMsgs)

NextForce ==
    \/ SetupReminders
    \/ \E cs \in ForceSnapshots : StorageChanges(cs)
    \/ DayPasses
    \/ \E t \in OneCaller, i \in 1..(2 * MaxClients) : SendReminder(t, i)
    \/ \E t \in OneCaller, client_id \in SchedClientIds,
          reminder_type \in {Type3Days, TypePayment} :
          ForceSendReminder(t, client_id, reminder_type)
    \/ \E t \in OneCaller : SpawnWorker(t)
    \/ \E w \in WorkerSlots : WLoop(w)
    \/ \E w \in WorkerSlots : WGet(w)

SpecForce == InitForce /\ [][NextForce]_vars

TypeOK ==
    /\ queue \in Seq(DOMAIN msgs)
    /\ retry_queue \in Seq(DOMAIN msgs)
    /\ processing \in BOOLEAN
    /\ \A id \in DOMAIN msgs :
          /\ msgs[id].status \in MessageStatus
          /\ msgs[id].scheduled_time \in 0..RetryCapSeconds
    /\ \A w \in WorkerSlots :
          /\ workers[w].pc \in {"dead", "loop", "get", "sleep", "send", "trim"}
          /\ workers[w].time_since_last \in 0..delay_between_messages
    /\ budget \in Nat

(***************************************************************************)
(* Properties of the message queue                                         *)
(***************************************************************************)
\* a message is delivered successfully in this step
Delivers ==
    \E id \in DOMAIN msgs : msgs[id].status # SENT /\ msgs'[id].status = SENT

\* C1: of two consecutive successful deliveries the second comes at least
\* delay_between_messages after the first, whatever add_message,
\* stop_processing and start_processing do in between
C1_PacedDeliveries ==
    [][Delivers => since_delivery >= delay_between_messages]_vars

\* C2: while the worker keeps running and time advances, every accepted
\* message eventually has a terminal status
C2_EventuallyTerminal ==
    \A id \in 1..LiveRunMsgs :
        (id \in DOMAIN msgs) ~> (id \in DOMAIN msgs /\ msgs[id].status \in Terminal)

\* get_recent_messages(50) lists the message, and every entry it has for the
\* message shows this status and retry_count
Reported(id, status, retry_count) ==
    LET recent == GetRecentMessages(DefaultRecentLimit)
    IN  /\ \E i \in DOMAIN recent : recent[i].id = id
        /\ \A i \in DOMAIN recent :
              recent[i].id = id =>
                  /\ recent[i].status = status
                  /\ recent[i].retry_count = retry_count

\* a message of max_retries 3 whose delivery has failed n times has gone
\* PENDING, RETRYING three times, FAILED, and is reported failed with
\* retry_count 3
FailedAfter(n) ==
    \A id \in DOMAIN msgs :
        msgs[id].max_retries = 3 /\ msgs[id].failures = n =>
            /\ msgs[id].path = <<PENDING, RETRYING, RETRYING, RETRYING, FAILED>>
            /\ msgs[id].status = FAILED
            /\ Reported(id, "failed", 3)

\* C3 as claimed: the message is FAILED after its 3rd failed delivery
C3_FailedAfterThreeFailures == FailedAfter(3)

\* C3 as amended: a message with max_retries = 3 is FAILED after its 4th failed
\* delivery (the first attempt and the three retries), having gone PENDING ->
\* RETRYING (three times) -> FAILED, and get_recent_messages then reports it
\* with status "failed" and retry_count 3; before that it is not FAILED
C3_FailedAfterFourFailures ==
    /\ FailedAfter(4)
    /\ \A id \in DOMAIN msgs :
          msgs[id].max_retries = 3 /\ msgs[id].failures < 4 =>
              msgs[id].status # FAILED

C3_Witness ==
    \E id \in DOMAIN msgs : msgs[id].max_retries = 3 /\ msgs[id].failures = 4

\* the failed delivery that takes a message to its n-th failure, n = 1, 2, 3,
\* schedules the retry d1, d2, d3 seconds ahead, and no retry is ever scheduled
\* more than 300 s ahead
BackoffDelays(d1, d2, d3) ==
    \A id \in DOMAIN msgs :
        /\ msgs'[id].scheduled_time <= 300
        /\ msgs'[id].failures = msgs[id].failures + 1
           /\ msgs'[id].status = RETRYING =>
               /\ msgs'[id].failures \in 1..3
               /\ msgs'[id].scheduled_time = <<d1, d2, d3>>[msgs'[id].failures]

\* C4 as claimed: the retry delays computed after the first, second and third
\* failed delivery are 60 s, 120 s, 240 s, none above 300 s
C4_BackoffAsClaimed == [][BackoffDelays(60, 120, 240)]_vars

\* C4 as amended: the retry delays computed after the first, second and third
\* failed delivery are 120 s, 240 s and 300 s (480 s capped), and no computed
\* retry delay exceeds 300 s
C4_Backoff == [][BackoffDelays(120, 240, 300)]_vars

C4_Witness ==
    \E id \in DOMAIN msgs :
        /\ msgs[id].failures = 3
        /\ msgs[id].status = RETRYING
        /\ msgs[id].scheduled_time = 300

\* the delivery attempt of message id fails in this step
FailsNow(id) ==
    \E w \in WorkerSlots : workers[w].message = id /\ WSend(w, FALSE)

\* C5: retry_count never exceeds max_retries, and a failed delivery of a message
\* whose retry_count equals max_retries makes it FAILED and leaves retry_count
C5_RetryBounded ==
    /\ [](\A id \in DOMAIN msgs : msgs[id].retry_count <= msgs[id].max_retries)
    /\ [][\A id \in DOMAIN msgs :
             FailsNow(id) /\ msgs[id].retry_count = msgs[id].max_retries =>
                 /\ msgs'[id].status = FAILED
                 /\ msgs'[id].retry_count = msgs[id].retry_count]_vars

C5_Witness ==
    \E id \in DOMAIN msgs :
        /\ msgs[id].status = FAILED
        /\ msgs[id].retry_count = msgs[id].max_retries
        /\ msgs[id].max_retries = DefaultMaxRetries

NumDigits(phone) == Cardinality({i \in DOMAIN phone : phone[i] \in DigitChars})
OnlyWhitespace(body) == \A i \in DOMAIN body : body[i].ch = " "

\* the inputs the specification has add_message reject
Rejectable(input) ==
    LET phone == input[1]
        body == input[2]
        client_id == input[3]
    IN  \/ phone = <<>>
        \/ NumDigits(phone) < 10
        \/ NumDigits(phone) > 15
        \/ BodyLen(body) > 4096
        \/ OnlyWhitespace(body)
        \/ client_id = ""

\* C6: add_message returns False and leaves the pending queue, the retry area
\* and the history as they were when the recipient is empty or has fewer than
\* 10 or more than 15 digits, the body is longer than 4096 characters, empty or
\* only whitespace, or client_id is missing; recipients of 10 and of 15 digits
\* with a body of exactly 4096 characters are accepted
C6_RejectsInvalid ==
    [][ret'.op = "add" =>
          /\ Rejectable(ret'.input) =>
                /\ ~ret'.ok
                /\ queue' = queue
                /\ retry_queue' = retry_queue
                /\ messages_history' = messages_history
                /\ msgs' = msgs
          /\ ( /\ NumDigits(ret'.input[1]) \in {10, 15}
               /\ BodyLen(ret'.input[2]) = 4096
               /\ ~OnlyWhitespace(ret'.input[2])
               /\ ret'.input[3] # "" ) => ret'.ok]_vars

C6_Witness ==
    /\ ret.op = "add"
    /\ ~ret.ok
    /\ NumDigits(ret.input[1]) = 9
    /\ queue # <<>>

\* add_message returns from start_processing, in the call of t
AddReturnsFrom(t) ==
    callers[t].pc = "spawn" /\ callers[t].op = "add" /\ callers'[t].pc = "idle"

\* add_message returns without having called start_processing
AddReturnsAtOnce ==
    ret'.op = "add" /\ \A t \in Callers : ~AddReturnsFrom(t)

\* C7: add_message returns False with no side effect when the pending queue
\* already holds max_queue_size (1000) messages; otherwise a valid message is
\* appended at the tail of the pending queue, the worker is started if it is
\* not running, and the call returns True
C7_QueueLimit ==
    [][/\ AddReturnsAtOnce =>
            IF Len(queue) >= 1000
            THEN /\ ~ret'.ok
                 /\ UNCHANGED <<msgs, queue, retry_queue, messages_history,
                                failed_messages, processing, workers>>
            ELSE IF Rejectable(ret'.input) THEN ~ret'.ok
            ELSE /\ ret'.ok
                 /\ queue' = Append(queue, Len(msgs) + 1)
                 /\ Len(msgs') = Len(msgs) + 1
                 /\ processing /\ processing'
       /\ \A t \in Callers :
            \* the call goes on to start the worker
            /\ callers[t].pc = "idle" /\ callers'[t].pc = "spawn"
               /\ callers'[t].op = "add" =>
                  /\ Len(queue) < 1000
                  /\ ~Rejectable(callers'[t].input)
                  /\ ~processing
                  /\ queue' = Append(queue, Len(msgs) + 1)
            \* the worker is started and the call returns
            /\ AddReturnsFrom(t) =>
                  /\ ret' = AddTrue(callers[t].input)
                  /\ processing'
                  /\ Cardinality(Live') = Cardinality(Live) + 1]_vars

C7_Witness ==
    /\ ret.op = "add"
    /\ ~ret.ok
    /\ ~Rejectable(ret.input)
    /\ Len(queue) = 1000

\* C8: cancel_messages_for_client(X), with no other activity on the queue
\* during the call, removes from the pending queue all and only the messages
\* of X, marks each CANCELLED and appends it to the history, leaves the others
\* in their order, and returns the number removed
C8_CancelExact ==
    [][\A t \in Callers :
          CancelSwap(t) /\ callers[t].alone =>
              LET X == callers[t].client_id
                  q0 == callers[t].q0
                  removed == SelectSeq(q0, LAMBDA id : msgs[id].client_id = X)
                  others == SelectSeq(q0, LAMBDA id : msgs[id].client_id # X)
              IN  /\ queue' = others
                  /\ ret'.op = "cancel" /\ ret'.count = Len(removed)
                  /\ messages_history' = callers[t].h0 \o removed
                  /\ \A i \in DOMAIN removed : msgs'[removed[i]].status = CANCELLED
                  /\ \A i \in DOMAIN others :
                        msgs'[others[i]].status \in {PENDING, RETRYING}]_vars

C8_Witness ==
    \E t \in Callers :
        /\ callers[t].pc = "swap"
        /\ callers[t].alone
        /\ callers[t].cancelled_count >= 1
        /\ Len(callers[t].new_queue) >= 2

\* a step of a call of cancel_messages_for_client
CancelStep ==
    \E t \in Callers :
        \/ \E client_id \in ClientIds : CancelStart(t, client_id)
        \/ CancelGet(t)
        \/ CancelSwap(t)

\* C9: cancel_messages_for_client leaves alone the retry-holding area and every
\* message that is parked there or already SENT: status, retry_count and
\* scheduled_time stay as they are
C9_CancelFrame ==
    [][CancelStep =>
          /\ retry_queue' = retry_queue
          /\ \A id \in DOMAIN msgs :
                InRetry(id) \/ msgs[id].status = SENT =>
                    /\ msgs'[id].status = msgs[id].status
                    /\ msgs'[id].retry_count = msgs[id].retry_count
                    /\ msgs'[id].scheduled_time = msgs[id].scheduled_time]_vars

\* a retry of the cancelled client, parked when the cancellation returned, has
\* been attempted since
C9_Witness ==
    \E id \in DOMAIN msgs :
        /\ msgs[id].kept
        /\ msgs[id].client_id \in CancelTargets
        /\ msgs[id].status \in {SENT, FAILED}

(***************************************************************************)
(* Properties of the reminder scheduler                                    *)
(***************************************************************************)
JobSet(js) == {js[i] : i \in DOMAIN js}
JobIds(js) == {js[i].id : i \in DOMAIN js}
UniqueIds(js) == \A i, j \in DOMAIN js : i # j => js[i].id # js[j].id

\* C10: with the client snapshot and today fixed, a run of setup_reminders that
\* follows a run of setup_reminders leaves the scheduler with the job ids the
\* first run left: no id twice, and every job with the function, arguments and
\* trigger it had
C10_SetupIdempotent ==
    [][SetupReminders /\ last_run >= 1 =>
          /\ JobIds(jobs') = JobIds(jobs)
          /\ UniqueIds(jobs')
          /\ JobSet(jobs') = JobSet(jobs)]_vars

\* a second run in a row has ended, on two clients whose reminders fall on the
\* same date and are staggered across midnight
C10_Witness ==
    /\ last_run = RunsTold
    /\ Len(jobs) >= 4
    /\ \E i \in DOMAIN jobs : jobs[i].id = DailyCleanupId
    /\ \E i \in DOMAIN jobs : IsReminderJob(jobs[i]) /\ jobs[i].trigger.hour = 0

\* the date on which the reminders of a kind fire for a client
FireDate(client, reminder_type) ==
    IF reminder_type = Type3Days
    THEN MinusDays(ParseDate(client.plan_duration), 3)
    ELSE ParseDate(client.plan_duration)

\* the configured time of the reminders of a kind, in minutes after midnight
BaseMinutes(client, reminder_type) ==
    LET time == ParseTime(IF reminder_type = Type3Days
                          THEN client.reminder_time_3days
                          ELSE client.reminder_time_payment)
    IN  60 * time[1] + time[2]

\* the triggers of the jobs of a client for a kind of reminder
TriggersOf(js, client, reminder_type) ==
    {js[i].trigger : i \in {j \in DOMAIN js : js[j].args = <<client.id, reminder_type>>}}

\* the trigger that fires `minutes` after midnight of date d
TriggerAt(d, minutes) ==
    [year |-> d.year, month |-> d.month, day |-> d.day,
     hour |-> minutes \div 60, minute |-> minutes % 60]

MinutesPerDay == 24 * 60

\* C11: in a batch of clients sharing fire date, kind and base time, the
\* client at index i (from 0, in input order) whose time base + i minutes is
\* still on the fire date is registered on that date at base + i minutes,
\* minutes from 60 on being carried into the hour, and the fire times of any
\* batch are pairwise distinct
C11_BatchStagger ==
    [][SetupReminders =>
          \A reminder_type \in {Type3Days, TypePayment} :
              /\ \A i \in DOMAIN clients :
                    LET minutes == BaseMinutes(clients[1], reminder_type) + (i - 1)
                    IN  minutes < MinutesPerDay =>
                            TriggersOf(jobs', clients[i], reminder_type) =
                                {TriggerAt(FireDate(clients[i], reminder_type),
                                           minutes)}
              /\ \A a, b \in DOMAIN jobs' :
                    (/\ a # b
                     /\ jobs'[a].func = "send_reminder"
                     /\ jobs'[b].func = "send_reminder"
                     /\ jobs'[a].args[2] = reminder_type
                     /\ jobs'[b].args[2] = reminder_type)
                        => jobs'[a].trigger # jobs'[b].trigger
              /\ \A i \in DOMAIN clients :
                    TriggersOf(jobs', clients[i], reminder_type) # {}]_vars

\* the batch of 62 clients from 09:00 is registered: the client at index 61
\* fires at 10:01
C11_Witness ==
    /\ last_run >= 1
    /\ Len(clients) = 62
    /\ BaseMinutes(clients[1], Type3Days) = 540
    /\ TriggersOf(jobs, clients[62], Type3Days) =
           {TriggerAt(FireDate(clients[62], Type3Days), 601)}

\* C12: the client at index i whose time base + i minutes is past midnight is
\* registered on the day after the fire date at base + i minutes - 24 h
C12_MidnightRollover ==
    [][SetupReminders =>
          \A reminder_type \in {Type3Days, TypePayment} :
              \A i \in DOMAIN clients :
                  LET minutes == BaseMinutes(clients[1], reminder_type) + (i - 1)
                  IN  minutes >= MinutesPerDay =>
                          TriggersOf(jobs', clients[i], reminder_type) =
                              {TriggerAt(NextDate(FireDate(clients[i], reminder_type)),
                                         minutes - MinutesPerDay)}]_vars

\* the days of a date counted so that a later date counts more
DayCount(d) == (d.year * 12 + d.month) * 31 + d.day

\* the clients of a group of the planner for a kind of reminder
GroupMembers(grouped, date_key, reminder_type) ==
    UNION {IF reminder_type = Type3Days
           THEN {grouped[g].days3[k] : k \in DOMAIN grouped[g].days3}
           ELSE {grouped[g].payment[k] : k \in DOMAIN grouped[g].payment} :
           g \in {h \in DOMAIN grouped : grouped[h].date_key = date_key}}

\* C13: the planner puts every client, paid or not, in the 3days group of the
\* date three days before the plan ends and in the payment group of the date
\* it ends, and setup_reminders registers the jobs of a client for a kind
\* exactly when that date is today or later
C13_PlannedNotBeforeToday ==
    [][SetupReminders =>
          \A i \in DOMAIN clients :
              \A reminder_type \in {Type3Days, TypePayment} :
                  LET fire_date == FireDate(clients[i], reminder_type)
                  IN  /\ clients[i] \in GroupMembers(GroupClientsByReminderDate(clients),
                                                     FormatDate(fire_date, <<"-">>),
                                                     reminder_type)
                      /\ (TriggersOf(jobs', clients[i], reminder_type) # {})
                             <=> (DayCount(fire_date) >= DayCount(today))
                      /\ TriggersOf(jobs', clients[i], reminder_type)
                             \subseteq {TriggerAt(fire_date,
                                                  BaseMinutes(clients[i], reminder_type) + k) :
                                           k \in 0..(Len(clients) - 1)}]_vars

\* setup_reminders has run on a paid client whose plan ends today: the 3days
\* date is past, and the client has the payment job only
C13_Witness ==
    /\ last_run >= 1
    /\ \E i \in DOMAIN clients :
          /\ clients[i].payment_status = "paid"
          /\ FireDate(clients[i], TypePayment) = today
          /\ TriggersOf(jobs, clients[i], TypePayment) # {}
          /\ TriggersOf(jobs, clients[i], Type3Days) = {}

\* C14: when a reminder job fires for a client that storage no longer
\* holds, or that is paid, or whose plan ended before today, as the record
\* reads at that moment, no message is accepted and the queue is as it was
C14_SkipAtFireTime ==
    [][\A t \in Callers, i \in DOMAIN jobs :
          (/\ SendReminder(t, i)
           /\ \/ \A k \in DOMAIN clients : clients[k].id # jobs[i].args[1]
              \/ \E k \in DOMAIN clients :
                    /\ clients[k].id = jobs[i].args[1]
                    /\ \/ clients[k].payment_status = "paid"
                       \/ DayCount(ParseDate(clients[k].plan_duration))
                              < DayCount(today))
              => msgs' = msgs /\ queue' = queue /\ retry_queue' = retry_queue]_vars

\* a reminder job has fired for a client that was marked paid after the
\* stored clients changed, and nothing was queued
C14_Witness ==
    /\ ret.op = "send_reminder"
    /\ edits >= 1
    /\ \E k \in DOMAIN clients :
          clients[k].id = ret.input[1] /\ clients[k].payment_status = "paid"
    /\ msgs = <<>>

\* C15: at most one thread runs _process_messages at any time
C15_SingleWorker == Cardinality(Live) <= 1

\* C16: the history holds at most 1000 entries
C16_HistoryCapped == Len(messages_history) <= HistoryCap

\* the changes of status the lifecycle of a message allows
LifecycleMoves ==
    { <<PENDING, SENT>>, <<PENDING, RETRYING>>, <<PENDING, CANCELLED>>,
      <<RETRYING, PENDING>>, <<RETRYING, CANCELLED>> }

\* C17: the status of a message changes only from pending to sent, retrying
\* or cancelled and from retrying to pending or cancelled, or to failed once
\* the retries are used up, and a message that has been re-queued is pending
\* when the worker attempts it again
C17_StatusLifecycle ==
    [][/\ \A id \in DOMAIN msgs :
             msgs'[id].status # msgs[id].status =>
                 \/ <<msgs[id].status, msgs'[id].status>> \in LifecycleMoves
                 \/ /\ msgs'[id].status = FAILED
                    /\ msgs[id].retry_count >= msgs[id].max_retries
       /\ \A w \in WorkerSlots, success \in BOOLEAN :
             WSend(w, success) /\ msgs[workers[w].message].retry_count > 0
                 => msgs[workers[w].message].status = PENDING]_vars

\* C18: when the fetch of the snapshot fails during setup_reminders, every
\* reminder job registered before the call is registered after it
C18_JobsSurviveFailure ==
    [][SetupRemindersFetchFails =>
          \A i \in DOMAIN jobs :
              StartsWith(jobs[i].id, ReminderPrefix) =>
                  \E k \in DOMAIN jobs' : jobs'[k] = jobs[i]]_vars

\* C19: a run of setup_reminders, whether or not the snapshot can be fetched,
\* leaves every job whose id does not start with reminder_ in the job
\* store, with the function, arguments and trigger it had
C19_OtherJobsKept ==
    [][SetupReminders \/ SetupRemindersFetchFails =>
          \A i \in DOMAIN jobs :
              ~StartsWith(jobs[i].id, ReminderPrefix) =>
                  \E k \in DOMAIN jobs' : jobs'[k] = jobs[i]]_vars

\* setup_reminders has run on an empty snapshot, which registers nothing: the
\* reminder jobs are gone and the daily cleanup of an earlier run is there
C19_Witness ==
    /\ last_run >= 1
    /\ clients = <<>>
    /\ \E i \in DOMAIN jobs : jobs[i].id = DailyCleanupId
    /\ \A i \in DOMAIN jobs : ~StartsWith(jobs[i].id, ReminderPrefix)

\* where a message that is still to be delivered can be: in the queue, in the
\* retry queue, with a worker, or in the new queue of a running cancellation
InHand(id) ==
    \/ \E i \in DOMAIN queue : queue[i] = id
    \/ InRetry(id)
    \/ \E w \in WorkerSlots : workers[w].pc # "dead" /\ workers[w].message = id
    \/ \E t \in Callers :
          \E i \in DOMAIN callers[t].new_queue : callers[t].new_queue[i] = id

\* C20: a message of a client other than the one being cancelled, once
\* accepted, is delivered, has failed for good, or is still in hand
C20_OthersNotLost ==
    \A id \in DOMAIN msgs :
        msgs[id].client_id \notin CancelTargets =>
            msgs[id].status \in Terminal \/ InHand(id)

\* C21: the queue never holds two messages that are not terminal for the
\* same client, kind of reminder and scheduled_time
C21_OnePerReminder ==
    \A i, j \in DOMAIN queue :
        (i # j /\ msgs[queue[i]].status \notin Terminal
               /\ msgs[queue[j]].status \notin Terminal)
            => <<msgs[queue[i]].client_id, msgs[queue[i]].message_type,
                 msgs[queue[i]].scheduled_at>>
               # <<msgs[queue[j]].client_id, msgs[queue[j]].message_type,
                   msgs[queue[j]].scheduled_at>>

\* the reminder jobs of a job store
ReminderJobsOf(js) ==
    {js[i] : i \in {k \in DOMAIN js : StartsWith(js[k].id, ReminderPrefix)}}

\* C22: after a run of setup_reminders on a snapshot that is not empty, the
\* reminder jobs are those planned from the snapshot alone, whatever jobs the
\* store held before: each is the job of a stored client, every stored client
\* has one job per kind whose date is today or later and none per kind whose
\* date is past, and no two jobs share an id
C22_JobsMatchSnapshot ==
    [][SetupReminders /\ clients # <<>> =>
          /\ ReminderJobsOf(jobs') = ReminderJobsOf(JobsAfterSetup(<<>>, clients, today))
          /\ UniqueIds(jobs')
          /\ \A job \in ReminderJobsOf(jobs') :
                \E i \in DOMAIN clients :
                    /\ job.args[1] = clients[i].id
                    /\ job.args[2] \in {Type3Days, TypePayment}
                    /\ DayCount(Date(job.trigger.year, job.trigger.month,
                                     job.trigger.day))
                          >= DayCount(FireDate(clients[i], job.args[2]))
          /\ \A i \in DOMAIN clients :
                \A reminder_type \in {Type3Days, TypePayment} :
                    Cardinality({job \in ReminderJobsOf(jobs') :
                                    job.args = <<clients[i].id, reminder_type>>})
                        = IF DayCount(FireDate(clients[i], reminder_type))
                                >= DayCount(today)
                          THEN 1 ELSE 0]_vars

\* setup_reminders has run after the stored clients changed twice, and the
\* one client left has its two jobs and nobody else has any
C22_Witness ==
    /\ last_run >= 1
    /\ edits = MaxEdits
    /\ Len(clients) = 1
    /\ Cardinality(ReminderJobsOf(jobs)) = 2
    /\ \A job \in ReminderJobsOf(jobs) : job.args[1] = clients[1].id


\* the rate limiter alone: calls of two clients under one limit
InitRate ==
    /\ QueueInit(0)
    /\ jobs = <<>>
    /\ clients = <<>>
    /\ today = FirstDay
    /\ last_run = 0
    /\ edits = 0
    /\ refused = {}
    /\ paused = {}
    /\ \E limit \in RateLimits : limiter = RateLimiterOf(limit)
    /\ cache = CacheEmpty
    /\ clock = 0

NextRate ==
    \/ \E client_ip \in RateKeys, wait \in LockWaits : IsAllowed(client_ip, wait)
    \/ RateCleanupExpired
    \/ \E step \in ClockSteps : ClockAdvances(step)

SpecRate == InitRate /\ [][NextRate]_vars

\* C23: a call of is_allowed whose reading lies inside the window of its key
\* is allowed exactly when fewer than `limit` calls were handled in that
\* window before it; a refused call leaves count and reset_time as they were
\* and an allowed one adds one to count; a call with no window or with a
\* reading at or after the reset time is allowed and starts a window with
\* count 1 that ends `window` seconds after the reading
C23_RateWindow ==
    [][ret'.op = "is_allowed" =>
        LET key == ret'.input[1]
            current_time == ret'.input[2]
            before == limiter.clients
            after == limiter'.clients
            inside == key \in DOMAIN before /\ current_time < before[key].reset_time
        IN  /\ key \in DOMAIN after
            /\ \A other \in DOMAIN before \ {key} :
                   other \in DOMAIN after /\ after[other] = before[other]
            /\ inside => /\ ret'.ok <=> before[key].calls < limiter.limit
                         /\ after[key].reset_time = before[key].reset_time
                         /\ after[key].count =
                                before[key].count + (IF ret'.ok THEN 1 ELSE 0)
            /\ ~inside => /\ ret'.ok
                          /\ after[key].count = 1
                          /\ after[key].reset_time = current_time + window]_vars

\* a call at or after the reset time of a window that refused a call was
\* allowed and started the count again
C23_Witness ==
    /\ ret.op = "is_allowed"
    /\ ret.ok
    /\ limiter.clients[ret.input[1]].count = 1
    /\ limiter.clients[ret.input[1]].after_denial


\* the cache alone, empty or holding max_size entries that were stored with
\* the default ttl when the process started and read once since
CacheFills == {0, max_size}
FilledCache(n) ==
    [CacheEmpty EXCEPT !.entries =
        [i \in 1..n |-> [key |-> <<"text", i>>, value |-> "v0",
                         expires_at |-> default_ttl, access_count |-> 2]]]

InitCache ==
    /\ QueueInit(0)
    /\ jobs = <<>>
    /\ clients = <<>>
    /\ today = FirstDay
    /\ last_run = 0
    /\ edits = 0
    /\ refused = {}
    /\ paused = {}
    /\ limiter = RateLimiterOf(default_limit)
    /\ \E n \in CacheFills : cache = FilledCache(n)
    /\ clock = 0

NextCache ==
    \/ \E key \in CacheKeys : CacheGet(key)
    \/ \E key \in CacheKeys, value \in CacheValues, ttl \in CacheTtls : CacheSet(key, value, ttl)
    \/ CacheCleanupExpired
    \/ \E step \in ClockSteps : clock + step <= CacheHorizon /\ ClockAdvances(step)

SpecCache == InitCache /\ [][NextCache]_vars

\* the latest set of the key of the get that returns in this step
ToldOf(key) == cache.latest[key]
FreshAt(key) == key \in DOMAIN cache.latest /\ clock < ToldOf(key).at + ToldOf(key).ttl
StaleAt(key) == key \in DOMAIN cache.latest /\ clock >= ToldOf(key).at + ToldOf(key).ttl

\* C24 as stated: get(key) returns the value of the latest set(key, value,
\* ttl) while fewer than ttl seconds have passed since that set, and once ttl
\* seconds have passed it returns None, the entry is gone and a miss counted
C24_GetWithinTtl ==
    [][ret'.op = "get" =>
        LET key == ret'.input[1]
        IN  /\ FreshAt(key) => ret'.value = ToldOf(key).value
            /\ StaleAt(key) => /\ ret'.value = None
                               /\ EntryAt(cache'.entries, GenerateKey(key)) = 0
                               /\ cache'.misses = cache.misses + 1]_vars

\* C24, amended: the value of the latest set is returned while fewer than ttl
\* seconds have passed since that set unless _evict_lru removed the entry to
\* make room in between, in which case None is returned and a miss counted;
\* once ttl seconds have passed None is returned, the entry is gone and a
\* miss is counted
C24_GetUnlessEvicted ==
    [][ret'.op = "get" =>
        LET key == ret'.input[1]
            evicted == GenerateKey(key) \in cache.lost
        IN  /\ FreshAt(key) /\ ~evicted =>
                   /\ ret'.value = ToldOf(key).value
                   /\ cache'.hits = cache.hits + 1
            /\ FreshAt(key) /\ evicted =>
                   /\ ret'.value = None
                   /\ cache'.misses = cache.misses + 1
            /\ StaleAt(key) => /\ ret'.value = None
                               /\ EntryAt(cache'.entries, GenerateKey(key)) = 0
                               /\ cache'.misses = cache.misses + 1]_vars

\* a get found the entry of its key expired
C24_Witness ==
    /\ ret.op = "get"
    /\ ret.value = None
    /\ StaleAt(ret.input[1])
    /\ GenerateKey(ret.input[1]) \notin cache.lost


\* how often id occurs in a queue
Occurrences(q, id) == Cardinality({i \in DOMAIN q : q[i] = id})

\* the number of places that hold message id: the pending queue (the new
\* queue of a running cancellation counts as part of it), the retry queue,
\* a worker's current attempt, and the terminal statuses
PlacesOf(id) ==
    Occurrences(queue, id)
    + Cardinality({t \in Callers : Occurrences(callers[t].new_queue, id) > 0})
    + Occurrences(retry_queue, id)
    + Cardinality({w \in WorkerSlots : workers[w].pc # "dead" /\ workers[w].message = id})
    + (IF msgs[id].status \in Terminal THEN 1 ELSE 0)

\* C25: every accepted message is in exactly one place: pending, parked for
\* a retry, with the worker for its current attempt, or terminal
C25_ExactlyOnePlace == \A id \in DOMAIN msgs : PlacesOf(id) = 1


\* C26: a message that is sent, failed or cancelled keeps its status, no
\* worker takes it from the queue, no delivery attempt is made for it, and
\* no message is recorded as sent more than once
C26_TerminalAbsorbing ==
    [][/\ \A id \in DOMAIN msgs :
             /\ msgs[id].status \in Terminal =>
                    /\ msgs'[id].status = msgs[id].status
                    /\ msgs'[id].probes = msgs[id].probes
                    /\ msgs'[id].sends = msgs[id].sends
             /\ Occurrences(msgs'[id].path, SENT) <= 1
       /\ \A w \in WorkerSlots :
             (workers'[w].message # 0 /\ workers'[w].message # workers[w].message)
                 => msgs'[workers'[w].message].status \notin Terminal]_vars

\* a message is terminal while a worker is about to attempt another one
C26_Witness ==
    \E id \in DOMAIN msgs, w \in WorkerSlots :
        /\ msgs[id].status \in Terminal
        /\ workers[w].pc = "send"
        /\ workers[w].message \notin {0, id}


\* SpecProbe: the worker beside a channel that is connected at some attempts
\* and not at others
ProbeRunMsgs == 2
InitProbe == QInit(ProbeRunMsgs)

NextProbe ==
    \/ \E t \in OneCaller, phone \in SomePhones, body \in SomeBodies, client_id \in ClientIds, max_retries \in {0, 1} : AddMessage(t, phone, body, client_id, max_retries)
    \/ \E t \in OneCaller : SpawnWorker(t)
    \/ \E w \in WorkerSlots : WLoop(w)
    \/ \E w \in WorkerSlots : WGet(w)
    \/ \E w \in WorkerSlots, connected \in BOOLEAN, outcome \in SendOutcomes : WAttempt(w, connected, outcome)
    \/ \E dt \in TimeSteps : Tick(dt)

SpecProbe == InitProbe /\ [][NextProbe]_vars

\* C27: every delivery attempt asks is_whatsapp_connected once, the send
\* function is called only if the answer is yes, and an attempt with the
\* channel not connected is a failure: the message is parked for a retry with
\* one more retry counted, or is FAILED when its retries are used up
C27_ProbeBeforeSend ==
    [][\A w \in WorkerSlots, connected \in BOOLEAN, outcome \in SendOutcomes :
          WAttempt(w, connected, outcome) =>
              LET id == workers[w].message
                  before == msgs[id]
                  after == msgs'[id]
              IN  /\ after.probes = before.probes + 1
                  /\ after.sends > before.sends => connected
                  /\ ~connected =>
                        /\ after.sends = before.sends
                        /\ after.status # SENT
                        /\ IF before.retry_count < before.max_retries
                           THEN /\ after.status = RETRYING
                                /\ after.retry_count = before.retry_count + 1
                                /\ Occurrences(retry_queue', id) = 1
                           ELSE /\ after.status = FAILED
                                /\ after.retry_count = before.retry_count
                                /\ Occurrences(failed_messages', id) = 1]_vars

\* a message has failed for good without one call of the send function:
\* WhatsApp was not connected at its first attempt nor at its retry
C27_Witness ==
    \E id \in DOMAIN msgs :
        /\ msgs[id].status = FAILED
        /\ msgs[id].max_retries = 1
        /\ msgs[id].probes = 2
        /\ msgs[id].sends = 0
        /\ msgs[id].error_message = "WhatsApp not connected"


\* C28: a message leaves the retry queue only for the pending queue and only
\* when its scheduled_time has come; no worker takes or attempts a message
\* whose scheduled_time is still ahead; and an attempt of a message that
\* failed before comes at least the delay computed at that failure after it
C28_RetryNotEarly ==
    [][/\ \A id \in DOMAIN msgs :
             (Occurrences(retry_queue, id) > 0 /\ Occurrences(retry_queue', id) = 0)
                 => /\ msgs[id].scheduled_time <= 0
                    /\ Occurrences(queue', id) = 1
       /\ \A w \in WorkerSlots :
             workers'[w].message # 0 =>
                 msgs'[workers'[w].message].scheduled_time <= 0
       /\ \A w \in WorkerSlots, success \in BOOLEAN :
             (WSend(w, success) /\ msgs[workers[w].message].retry_count > 0)
                 => msgs[workers[w].message].since_attempt
                        >= RetryDelay(msgs[workers[w].message].retry_count)]_vars

\* a message that failed once has been attempted again
C28_Witness ==
    \E id \in DOMAIN msgs : msgs[id].retry_count >= 1 /\ msgs[id].probes >= 2


\* SpecOver: the pending queue at its limit or one short of it; the worker
\* holds a message that may be retried once
OverRunMsgs == 1
OverSlack == 1
InitOver ==
    \E fill \in {max_queue_size - 1, max_queue_size} :
        /\ msgs = [i \in 1..(fill + 1) |-> NewMessage("c1", IF i = 1 THEN 1 ELSE 0)]
        /\ queue = [i \in 1..fill |-> i + 1]
        /\ retry_queue = <<>>
        /\ messages_history = <<>>
        /\ failed_messages = <<>>
        /\ processing = TRUE
        /\ workers = [w \in WorkerSlots |->
                        IF w = 1 THEN [FreshWorker EXCEPT !.pc = "send", !.message = 1]
                        ELSE DeadWorker]
        /\ callers = [t \in Callers |-> IdleCaller]
        /\ ret = NoRet
        /\ since_delivery = delay_between_messages
        /\ budget = OverRunMsgs
        /\ SchedulerIdle

NextOver ==
    \/ \E t \in OneCaller, phone \in SomePhones, body \in SomeBodies, client_id \in ClientIds : AddMessage(t, phone, body, client_id, 0)
    \/ \E w \in WorkerSlots : WLoop(w)
    \/ \E w \in WorkerSlots : WGet(w) /\ Len(queue') >= max_queue_size - OverSlack
    \/ \E w \in WorkerSlots, success \in BOOLEAN : WSend(w, success)
    \/ \E dt \in TimeSteps : Tick(dt)

SpecOver == InitOver /\ [][NextOver]_vars

\* C29: the pending queue never holds more than max_queue_size messages
C29_QueueBounded == Len(queue) <= max_queue_size


\* C30: messages are attempted in the order in which they entered the
\* pending queue: when a message gets its first attempt, no message that
\* entered after it has been attempted yet (messages are numbered in the
\* order of their put, and none of them re-enters the queue)
C30_FifoAttempts ==
    [][\A w \in WorkerSlots, success \in BOOLEAN :
          (WSend(w, success) /\ msgs[workers[w].message].probes = 0)
              => \A later \in DOMAIN msgs :
                     later > workers[w].message => msgs[later].probes = 0]_vars


\* SpecRefuse: setup_reminders when the scheduler refuses some registrations
\* and when a stored reminder time cannot be parsed.  Two or three clients
\* share the expiration date and the reminder time; another client, stored
\* before or after them, has a later expiration date and reminder times that
\* edit_client stored as typed
RefuseBatchSizes == {2, 3}
RefuseTime == <<"0", "9", ":", "0", "0">>
RefuseBadTime == <<"9", "h">>
RefusePlanDate == <<"2", "0", "2", "5", "-", "0", "1", "-", "1", "0">>
RefuseOthers ==
    {<<>>} \cup {<<Client(<<"z">>, RefusePlanDate, t[1], t[2], "pending")>> :
                    t \in {<<RefuseTime, RefuseTime>>, <<RefuseBadTime, RefuseTime>>,
                           <<RefuseBadTime, RefuseBadTime>>}}
RefuseSnapshots ==
    UNION {{BatchClients(n, RefuseTime) \o z, z \o BatchClients(n, RefuseTime)} :
              n \in RefuseBatchSizes, z \in RefuseOthers}
MaxRefused == 2
RefusedSets ==
    {r \in SUBSET ({BatchClients(3, RefuseTime)[i].id : i \in 1..3}
                       \X {Type3Days, TypePayment}) : Cardinality(r) <= MaxRefused}

InitRefuse ==
    /\ QueueInit(0)
    /\ jobs = <<>>
    /\ clients \in RefuseSnapshots
    /\ today = FirstDay
    /\ last_run = 0
    /\ edits = 0
    /\ refused \in RefusedSets
    /\ paused = {}
    /\ UtilitiesIdle

NextRefuse ==
    \/ SetupReminders
    \/ DayPasses
    \/ CleanupExpiredJobs
    \/ \E w \in WorkerSlots : WLoop(w)
    \/ \E w \in WorkerSlots : WGet(w)

SpecRefuse == InitRefuse /\ [][NextRefuse]_vars

\* the positions of the clients of the snapshot whose reminder of a kind
\* falls on date d
GroupOf(d, reminder_type) ==
    {j \in DOMAIN clients : FireDate(clients[j], reminder_type) = d}

\* the first of a set of positions
FirstOf(positions) == CHOOSE j \in positions : \A k \in positions : j <= k

\* the time the batch of a kind on date d takes from its first client is not
\* a time
TimeFails(d, reminder_type) ==
    /\ GroupOf(d, reminder_type) # {}
    /\ LET first == clients[FirstOf(GroupOf(d, reminder_type))]
       IN  ParseTime(IF reminder_type = Type3Days THEN first.reminder_time_3days
                     ELSE first.reminder_time_payment) = <<>>

\* the processing of fire date d fails
DateFails(d) == TimeFails(d, Type3Days) \/ TimeFails(d, TypePayment)

\* C31: when add_job raises for some clients of a batch, every other client
\* of the batch is registered at the base time plus its own index (the time
\* being on the fire date), the refused clients are not registered, and a
\* fire date whose processing fails leaves the clients of the other fire
\* dates registered
C31_FailureIsolated ==
    [][SetupReminders =>
          \A reminder_type \in {Type3Days, TypePayment} :
              \A i \in DOMAIN clients :
                  LET d == FireDate(clients[i], reminder_type)
                      group == GroupOf(d, reminder_type)
                      index == Cardinality({j \in group : j < i})
                  IN  IF <<clients[i].id, reminder_type>> \in refused
                      THEN TriggersOf(jobs', clients[i], reminder_type) = {}
                      ELSE ~DateFails(d) =>
                               TriggersOf(jobs', clients[i], reminder_type) =
                                   {TriggerAt(d, BaseMinutes(clients[FirstOf(group)],
                                                             reminder_type) + index)}]_vars

\* setup_reminders has run while add_job raised for the second client of the
\* 3days batch and the fire dates of the client stored first could not be
\* processed: the first and the third client of the batch fire at 09:00 and
\* 09:02
C31_Witness ==
    /\ last_run >= 1
    /\ Len(clients) = 4
    /\ DateFails(FireDate(clients[1], Type3Days))
    /\ DateFails(FireDate(clients[1], TypePayment))
    /\ <<clients[3].id, Type3Days>> \in refused
    /\ TriggersOf(jobs, clients[3], Type3Days) = {}
    /\ TriggersOf(jobs, clients[2], Type3Days) =
           {TriggerAt(FireDate(clients[2], Type3Days), 540)}
    /\ TriggersOf(jobs, clients[4], Type3Days) =
           {TriggerAt(FireDate(clients[4], Type3Days), 542)}

\* a worker has taken message id from the pending queue and has not finished
\* with it
HeldBy(w, id) == workers[w].pc \in {"sleep", "send"} /\ workers[w].message = id

\* a call of cancel_messages_for_client for the client of message id is
\* running while a worker holds the message
HeldUnderCancel(id) ==
    /\ id \in DOMAIN msgs
    /\ \E w \in WorkerSlots : HeldBy(w, id)
    /\ \E t \in Callers :
          callers[t].op = "cancel" /\ callers[t].client_id = msgs[id].client_id

PrioRunMsgs == 2
PrioPlanDates ==
    { <<"2", "0", "2", "4", "-", "1", "2", "-", "3", "0">>,
      <<"2", "0", "2", "5", "-", "0", "1", "-", "0", "2">> }
PrioSnapshots ==
    {<<>>} \cup {<<Client(<<"a">>, d, <<"0", "9", ":", "0", "0">>,
                          <<"2", "3", ":", "5", "9">>, p)>> :
                    d \in PrioPlanDates, p \in PaymentStatuses}

InitPrio == QInit(PrioRunMsgs)

NextPrio ==
    \/ SetupReminders
    \/ \E cs \in PrioSnapshots : StorageChanges(cs)
    \/ DayPasses
    \/ \E t \in OneCaller, i \in 1..(2 * MaxClients) : SendReminder(t, i)
    \/ \E t \in OneCaller, client_id \in SchedClientIds,
          reminder_type \in {Type3Days, TypePayment} :
          ForceSendReminder(t, client_id, reminder_type)
    \/ \E w \in WorkerSlots : WLoop(w)
    \/ \E w \in WorkerSlots : WGet(w)

SpecPrio == InitPrio /\ [][NextPrio]_vars

\* a call of send_reminder(client_id, reminder_type) on thread t, by the
\* timer or by hand, that hands a message to the queue
SendsReminder(t, client_id, reminder_type) ==
    /\ \/ ForceSendReminder(t, client_id, reminder_type)
       \/ \E i \in DOMAIN jobs :
             jobs[i].args = <<client_id, reminder_type>> /\ SendReminder(t, i)
    /\ Len(msgs') = Len(msgs) + 1

\* C33: the message send_reminder hands to the queue has priority HIGH when
\* the kind is payment; for the other kind it has priority URGENT when the
\* client is in expired status as client.status reads at that moment, and
\* priority NORMAL otherwise
C33_PriorityByKind ==
    [][\A t \in Callers, client_id \in SchedClientIds,
         reminder_type \in {Type3Days, TypePayment} :
          SendsReminder(t, client_id, reminder_type) =>
              LET client == GetClientById(clients, client_id)[1]
                  plan_date == ParseDate(client.plan_duration)
                  expired == DayCount(plan_date) < DayCount(today')
              IN  msgs'[Len(msgs')].priority =
                      IF reminder_type = TypePayment THEN "HIGH"
                      ELSE IF expired THEN "URGENT"
                      ELSE "NORMAL"]_vars

\* the queue holds a payment reminder with priority HIGH and a 3days reminder
\* with priority NORMAL
C33_Witness ==
    /\ \E id \in DOMAIN msgs :
          msgs[id].message_type = TypePayment /\ msgs[id].priority = "HIGH"
    /\ \E id \in DOMAIN msgs :
          msgs[id].message_type = Type3Days /\ msgs[id].priority = "NORMAL"

\* C34: no message handed to the queue by send_reminder has priority URGENT
C34_NeverUrgent ==
    \A id \in DOMAIN msgs : msgs[id].priority # "URGENT"

\* SpecPerm: the list of failed messages after a long outage.  A thousand
\* messages without retries, or one fewer, have failed for good since the
\* list was last cleared, and more messages wait in the queue
PermRunMsgs == 1
PermPending == 2
InitPerm ==
    \E failed \in {HistoryCap - 1, HistoryCap} :
        /\ msgs = [i \in 1..(failed + PermPending) |->
                     IF i <= failed
                     THEN Processed(Attempted(NewMessage("c2", 0), TRUE, "refused"),
                                    FALSE)
                     ELSE NewMessage("c1", 0)]
        /\ queue = [i \in 1..PermPending |-> failed + i]
        /\ retry_queue = <<>>
        /\ messages_history = [i \in 1..failed |-> i]
        /\ failed_messages = [i \in 1..failed |-> i]
        /\ processing = TRUE
        /\ workers = [w \in WorkerSlots |->
                        IF w = 1 THEN FreshWorker ELSE DeadWorker]
        /\ callers = [t \in Callers |-> IdleCaller]
        /\ ret = NoRet
        /\ since_delivery = delay_between_messages
        /\ budget = PermRunMsgs
        /\ SchedulerIdle

NextPerm ==
    \/ \E t \in OneCaller, phone \in SomePhones, body \in SomeBodies,
          client_id \in ClientIds :
          AddMessage(t, phone, body, client_id, 0)
    \/ \E t \in OneCaller : ClearFailedMessages(t)
    \/ WorkerNext
    \/ \E w \in WorkerSlots : WTrim(w)
    \/ \E dt \in TimeSteps : Tick(dt)

SpecPerm == InitPerm /\ [][NextPerm]_vars

\* C35: the list of failed messages holds at most as many entries as the
\* history may hold
C35_FailedBounded == Len(failed_messages) <= HistoryCap

\* SpecClean: the daily cleanup over several days.  One or two clients are
\* stored whose plans end around the first day; setup_reminders may run on
\* any day, and a job whose minute is past when it is registered, or that
\* fires while the application is down, stays in the job store
CleanPlanDates ==
    { <<"2", "0", "2", "4", "-", "1", "2", "-", "2", "8">>,
      <<"2", "0", "2", "4", "-", "1", "2", "-", "2", "9">>,
      <<"2", "0", "2", "4", "-", "1", "2", "-", "3", "1">>,
      <<"2", "0", "2", "5", "-", "0", "1", "-", "0", "1">> }
CleanClients ==
    {Client(id, d, <<"0", "9", ":", "0", "0">>, <<"1", "0", ":", "0", "0">>,
            "pending") : id \in SchedClientIds, d \in CleanPlanDates}
CleanSnapshots ==
    {<<c>> : c \in CleanClients}
        \cup {<<c, d>> : c \in {k \in CleanClients : k.id = <<"a">>},
                         d \in {k \in CleanClients : k.id = <<"b">>}}

InitClean ==
    /\ QueueInit(0)
    /\ jobs = <<>>
    /\ clients \in CleanSnapshots
    /\ today = MinusDays(FirstDay, 2)
    /\ last_run = 0
    /\ edits = 0
    /\ refused = {}
    /\ paused = {}
    /\ UtilitiesIdle

NextClean ==
    \/ SetupReminders
    \/ DayPasses
    \/ CleanupExpiredJobs
    \/ \E w \in WorkerSlots : WLoop(w)
    \/ \E w \in WorkerSlots : WGet(w)

SpecClean == InitClean /\ [][NextClean]_vars

\* the date of the trigger of a job
JobDate(job) == Date(job.trigger.year, job.trigger.month, job.trigger.day)

\* C36: cleanup_expired_jobs removes exactly the jobs whose id starts with
\* reminder_ and whose date is more than one day before today: the jobs it
\* leaves are the others, in their order
C36_CleanupExact ==
    [][CleanupExpiredJobs =>
          jobs' = SelectSeq(jobs,
                      LAMBDA job : ~(/\ StartsWith(job.id, ReminderPrefix)
                                     /\ DayCount(JobDate(job))
                                            < DayCount(PrevDate(today))))]_vars

\* SpecPause: reminders paused and resumed.  Two or three pending clients
\* are stored whose plans end in three days; reminders are also sent by hand
\* and wait in the queue of a worker that is busy
PauseRunMsgs == 1
PauseClientIds == {<<"k", "1">>, <<"k", "1", "0">>, <<"k", "2">>}
PausePlanDate == <<"2", "0", "2", "5", "-", "0", "1", "-", "0", "2">>
PauseClient(id) ==
    Client(id, PausePlanDate, <<"0", "9", ":", "0", "0">>,
           <<"1", "0", ":", "0", "0">>, "pending")
PauseSnapshots ==
    { <<PauseClient(<<"k", "1">>), PauseClient(<<"k", "2">>)>>,
      <<PauseClient(<<"k", "2">>), PauseClient(<<"k", "1", "0">>),
        PauseClient(<<"k", "1">>)>> }

InitPause ==
    /\ QueueInit(PauseRunMsgs)
    /\ jobs = <<>>
    /\ clients \in PauseSnapshots
    /\ today = FirstDay
    /\ last_run = 0
    /\ edits = 0
    /\ refused = {}
    /\ paused = {}
    /\ UtilitiesIdle

NextPause ==
    \/ SetupReminders
    \/ \E t \in OneCaller, client_id \in PauseClientIds : PauseStart(t, client_id)
    \/ \E t \in OneCaller : CancelGet(t)
    \/ \E t \in OneCaller : PauseFinish(t)
    \/ \E client_id \in PauseClientIds : ResumeRemindersForClient(client_id)
    \/ \E t \in OneCaller, client_id \in PauseClientIds :
          ForceSendReminder(t, client_id, TypePayment)

SpecPause == InitPause /\ [][NextPause]_vars

\* C37: pause_reminders_for_client(X) removes the reminder jobs registered
\* for client X and no other job, and every message a step of the call
\* cancels is a message of X
C37_PauseExact ==
    [][\A t \in Callers :
          /\ PauseFinish(t) =>
                jobs' = SelectSeq(jobs,
                            LAMBDA job : ~(/\ StartsWith(job.id, ReminderPrefix)
                                           /\ job.args[1] = callers[t].input))
          /\ (\/ \E client_id \in PauseClientIds : PauseStart(t, client_id)
              \/ callers[t].op = "pause" /\ CancelGet(t)
              \/ PauseFinish(t))
                 => \A id \in DOMAIN msgs :
                       msgs'[id].status # msgs[id].status =>
                           /\ msgs'[id].status = CANCELLED
                           /\ msgs'[id].client_id
                                  = ClientKey(IF callers[t].pc = "idle"
                                              THEN callers'[t].input
                                              ELSE callers[t].input)]_vars

\* C38: after resume_reminders_for_client(X), and after any other run of
\* setup_reminders, every stored client that has been paused, X or not, has
\* its reminder jobs registered again: one per kind whose date is today or
\* later
C38_ResumeRebuildsAll ==
    [][(\/ ret' = NoRet /\ last_run' >= 1 /\ callers' = callers /\ SetupReminders
        \/ \E X \in PauseClientIds :
              ret' = ResumeRet(X) /\ ResumeRemindersForClient(X))
          => \A i \in DOMAIN clients, reminder_type \in {Type3Days, TypePayment} :
                (/\ clients[i].id \in paused
                 /\ DayCount(FireDate(clients[i], reminder_type)) >= DayCount(today))
                    => \E k \in DOMAIN jobs' :
                          /\ jobs'[k].args = <<clients[i].id, reminder_type>>
                          /\ JobDate(jobs'[k]) = FireDate(clients[i], reminder_type)]_vars

\* after pause(k2), pause(k1), resume(k2) the jobs of k1 are registered
C38_Witness ==
    /\ paused = {<<"k", "2">>, <<"k", "1">>}
    /\ ret = ResumeRet(<<"k", "2">>)
    /\ \E i \in DOMAIN clients :
          /\ clients[i].id = <<"k", "1">>
          /\ TriggersOf(jobs, clients[i], Type3Days) # {}
          /\ TriggersOf(jobs, clients[i], TypePayment) # {}

\* what is left of history h without its k oldest entries is the beginning
\* of history g
KeptFrom(h, k, g) ==
    /\ Len(g) >= Len(h) - k
    /\ SubSeq(g, 1, Len(h) - k) = SubSeq(h, k + 1, Len(h))

\* C39: no write to the history is lost while cancel_messages_for_client and
\* the worker run together: a message that is cancelled or attempted in a
\* step is in the history after the step, and a step takes from the history
\* nothing but the oldest entries of a history that is over its cap
C39_NoHistoryWriteLost ==
    [][/\ \A id \in DOMAIN msgs :
             (\/ msgs[id].status # CANCELLED /\ msgs'[id].status = CANCELLED
              \/ msgs'[id].probes > msgs[id].probes)
                 => \E i \in DOMAIN messages_history' : messages_history'[i] = id
       /\ \/ messages_history' = messages_history
          \/ KeptFrom(messages_history, 0, messages_history')
          \/ /\ Len(messages_history) > HistoryCap
             /\ KeptFrom(messages_history, Len(messages_history) - HistoryCap,
                         messages_history')]_vars

\* C40: the cache holds at most max_size entries
C40_CacheBounded == Len(cache.entries) <= max_size
====
